---- MODULE Spec2Model ----
(***************************************************************************)
(* Model of the log ingestion and filtering pipeline of                    *)
(* multi-logfile-analysis (src/app/log_processor.py, src/app/utils.py,     *)
(* src/app/main_window.py).                                                *)
(*                                                                         *)
(* Text is a sequence of one-character strings.  A regular expression is   *)
(* a sequence of chunks of pattern text (so that strip() of the edit box   *)
(* is computed, not assumed); the matchers below implement the patterns    *)
(* the model knows character by character.                                 *)
(***************************************************************************)
EXTENDS Integers, Sequences, FiniteSets, TLC

VARIABLES
    uploaded_files,   \* LogAnalyzerApp.uploaded_files: the io.BytesIO objects
    file_names,       \* LogAnalyzerApp.file_names
    log_regex_edit,   \* text of the frame pattern edit box
    time_regex_edit,  \* text of the time pattern edit box
    cpu_count,        \* os.cpu_count() or 1
    pc,               \* position of the caller
    futures,          \* per submitted task: "queued", "running" or "done"
    task_result,      \* per task: what future.result() gives
    completed,        \* task indices in the order the tasks finished
    idx,              \* number of futures the orchestrator has collected
    all_logs,         \* process_log_files: all_logs
    failed_files,     \* process_log_files: failed_files
    progress,         \* values handed to progress_callback, in order
    content,          \* parse_log_entries: its content argument
    parsed,           \* parse_log_entries: what list(...) of it gives
    entry,            \* process_file_content: the entry handed to extract_log_info
    log_info,         \* process_file_content: the LogEntry extract_log_info returns
    resolution,       \* process_file_content: the outcome of lines 70-99
    logs,             \* filter_logs_by_time_range: logs
    start_time,       \* filter_logs_by_time_range: start_time
    end_time,         \* filter_logs_by_time_range: end_time
    result,           \* filter_logs_by_time_range / filter_logs_by_keywords: result
    keywords,         \* filter_logs_by_keywords: keywords; _load_page: highlight_keywords
    time_range_check, \* main window: the time range check box is checked
    search_edit,      \* main window: the text of the keyword box
    filter_mode_radio,\* main window: filter mode is selected (else highlight mode)
    current_logs,     \* main window: current_logs
    entry_to_id_map,  \* main window: entry_to_id_map
    log_id_map,       \* main window: log_id_map
    current_page,     \* main window: current_page
    log_display,      \* main window: the items of the list widget log_display
    watched_logs,     \* main window: watched_logs
    written,          \* what an export wrote to its file
    analysis_started  \* main window: analysis_started

vars == <<uploaded_files, file_names, log_regex_edit, time_regex_edit, cpu_count,
          pc, futures, task_result, completed, idx, all_logs, failed_files,
          progress, content, parsed, entry, log_info, resolution, logs,
          start_time, end_time, result,
          keywords, time_range_check, search_edit, filter_mode_radio,
          current_logs, entry_to_id_map, log_id_map, current_page, log_display,
          watched_logs, written, analysis_started>>

(***************************************************************************)
(* Bounds of the model.                                                    *)
(***************************************************************************)
MaxFiles == 2
MaxCpu == 2
MaxLen == 4
MaxLogs == 3
MaxParts == 2
MaxKeywords == 2
MaxScroll == 2
MaxBatch == 3

(***************************************************************************)
(* Characters and character classes of Python's re on the model's          *)
(* alphabet.                                                               *)
(***************************************************************************)
Digits == {"0", "1", "2", "3", "4", "5", "6", "7", "8", "9"}

Letters ==
    {"a", "b", "c", "e", "g", "l", "n", "o", "p", "r", "t", "u", "v", "x", "y",
     "A", "B", "D", "F", "J", "M", "N", "O", "S"}

Spaces == {" ", "\n", "\r", "\t"}

Punct == {"%", "@", ":", "-"}

WordChars == Digits \cup Letters \cup {"_"}

AllChars == WordChars \cup Spaces \cup Punct

IsSpace(c) == c \in Spaces

\* int(s) of a string of decimal digits
RECURSIVE ToInt(_)
ToInt(s) ==
    LET DigitVal(c) ==
            CASE c = "0" -> 0 [] c = "1" -> 1 [] c = "2" -> 2 [] c = "3" -> 3
              [] c = "4" -> 4 [] c = "5" -> 5 [] c = "6" -> 6 [] c = "7" -> 7
              [] c = "8" -> 8 [] c = "9" -> 9
    IN  IF s = <<>> THEN 0
        ELSE 10 * ToInt(SubSeq(s, 1, Len(s) - 1)) + DigitVal(s[Len(s)])

\* str.strip(): leading and trailing whitespace removed
RECURSIVE LStrip(_)
LStrip(s) == IF s # <<>> /\ IsSpace(s[1]) THEN LStrip(Tail(s)) ELSE s

RECURSIVE RStrip(_)
RStrip(s) ==
    IF s # <<>> /\ IsSpace(s[Len(s)]) THEN RStrip(SubSeq(s, 1, Len(s) - 1)) ELSE s

Strip(s) == RStrip(LStrip(s))

\* content.replace('\r\n', '\n')
RECURSIVE ReplaceCRLF(_)
ReplaceCRLF(s) ==
    IF s = <<>> THEN <<>>
    ELSE IF Len(s) >= 2 /\ s[1] = "\r" /\ s[2] = "\n"
         THEN <<"\n">> \o ReplaceCRLF(SubSeq(s, 3, Len(s)))
         ELSE <<s[1]>> \o ReplaceCRLF(Tail(s))

\* length of the run of characters of the class cls that starts at position i
RECURSIVE RunLen(_, _, _)
RunLen(s, i, cls) ==
    IF i <= Len(s) /\ s[i] \in cls THEN 1 + RunLen(s, i + 1, cls) ELSE 0

Min(a, b) == IF a <= b THEN a ELSE b

(***************************************************************************)
(* The regular expressions.                                                *)
(***************************************************************************)
LOG_REGEX_PATTERN == <<"(%@\\d+%[\\s\\S]*?(?=%@\\d+%|\\Z))">>

TIME_REGEX_PATTERN ==
    <<"(\\w+)\\s+(\\d{1,2})\\s+(\\d{1,2}):(\\d{1,2}):(\\d{1,2}):(\\d{1,3})\\s+(\\d{4})">>

\* user patterns of the model: one entry per line, markers without a group,
\* a time pattern with '-' between the fields, and texts re.compile rejects
LinePattern == <<"([^\\n]+)">>

NoGroupPattern == <<"%@\\d+%">>

DashTimePattern ==
    <<"(\\w+)-(\\d{1,2})-(\\d{1,2}):(\\d{1,2}):(\\d{1,2}):(\\d{1,3})-(\\d{4})">>

InvalidPattern == <<"(">>

\* re.compile(p) succeeds
ReCompiles(p) ==
    p \in {LOG_REGEX_PATTERN, TIME_REGEX_PATTERN, LinePattern, NoGroupPattern,
           DashTimePattern}

\* number of capturing groups of a compiled pattern
NumGroups(p) ==
    CASE p = NoGroupPattern -> 0
      [] p \in {TIME_REGEX_PATTERN, DashTimePattern} -> 7
      [] OTHER -> 1

(***************************************************************************)
(* LogProcessor.parse_log_entries: segmentation of a decoded text.         *)
(***************************************************************************)
\* line 44: toPlainText().strip() or self.LOG_REGEX_PATTERN
LogPatternText(edit) == IF Strip(edit) # <<>> THEN Strip(edit) ELSE LOG_REGEX_PATTERN

CompileLogPatternNoFallback(edit) == Strip(edit)

\* lines 42-48: the pattern finditer runs with; re.error gives the default
CompileLogPattern(edit) ==
    IF ReCompiles(LogPatternText(edit)) THEN LogPatternText(edit)
    ELSE LOG_REGEX_PATTERN

\* line 52: toPlainText().strip() or self.TIME_REGEX_PATTERN
TimePatternText(edit) == IF Strip(edit) # <<>> THEN Strip(edit) ELSE TIME_REGEX_PATTERN

\* lines 50-56: the time pattern parse_log_entries compiles
CompileTimePattern(edit) ==
    IF ReCompiles(TimePatternText(edit)) THEN TimePatternText(edit)
    ELSE TIME_REGEX_PATTERN

\* %@\d+% matched at position i: the position after the marker, else 0
MarkerEnd(s, i) ==
    IF i + 1 <= Len(s) /\ s[i] = "%" /\ s[i + 1] = "@"
    THEN LET d == RunLen(s, i + 2, Digits)
         IN  IF d >= 1 /\ i + 2 + d <= Len(s) /\ s[i + 2 + d] = "%"
             THEN i + 2 + d + 1
             ELSE 0
    ELSE 0

\* [\s\S]*?(?=%@\d+%|\Z) from position j: the first position at or after j
\* where a marker starts, or the end of the text
RECURSIVE LazyEnd(_, _)
LazyEnd(s, j) ==
    IF j > Len(s) THEN Len(s) + 1
    ELSE IF MarkerEnd(s, j) # 0 THEN j
    ELSE LazyEnd(s, j + 1)

Group1AfterMarker(s, i) == MarkerEnd(s, i)

\* where group 1 of LOG_REGEX_PATTERN starts for a match that starts at i:
\* the parenthesis opens before the marker
Group1Start(s, i) == i

\* group 1 of the successive matches of LOG_REGEX_PATTERN from position pos
RECURSIVE FrameFindIter(_, _)
FrameFindIter(s, pos) ==
    IF pos > Len(s) THEN <<>>
    ELSE IF MarkerEnd(s, pos) = 0 THEN FrameFindIter(s, pos + 1)
    ELSE LET e == LazyEnd(s, MarkerEnd(s, pos))
         IN  <<SubSeq(s, Group1Start(s, pos), e - 1)>> \o FrameFindIter(s, e)

\* group 1 of the successive matches of ([^\n]+)
RECURSIVE LineFindIter(_, _)
LineFindIter(s, pos) ==
    IF pos > Len(s) THEN <<>>
    ELSE IF s[pos] = "\n" THEN LineFindIter(s, pos + 1)
    ELSE LET n == RunLen(s, pos, AllChars \ {"\n"})
         IN  <<SubSeq(s, pos, pos + n - 1)>> \o LineFindIter(s, pos + n)

\* the successive matches of %@\d+% (group 0: the pattern has no group)
RECURSIVE MarkerFindIter(_, _)
MarkerFindIter(s, pos) ==
    IF pos > Len(s) THEN <<>>
    ELSE IF MarkerEnd(s, pos) = 0 THEN MarkerFindIter(s, pos + 1)
    ELSE <<SubSeq(s, pos, MarkerEnd(s, pos) - 1)>>
             \o MarkerFindIter(s, MarkerEnd(s, pos))

\* log_pattern.finditer(content): the matches, in text order
FindIter(p, s) ==
    CASE p = LOG_REGEX_PATTERN -> FrameFindIter(s, 1)
      [] p = LinePattern -> LineFindIter(s, 1)
      [] p = NoGroupPattern -> MarkerFindIter(s, 1)
      [] OTHER -> <<>>

RECURSIVE StripEach(_)
StripEach(ms) ==
    IF ms = <<>> THEN <<>> ELSE <<Strip(Head(ms))>> \o StripEach(Tail(ms))

KeepEveryMatch(e) == TRUE

\* lines 59-61: if entry: yield entry
NonEmpty(e) == e # <<>>

\* list(self.parse_log_entries(content, log_regex_edit, time_regex_edit)):
\* match.group(1) raises IndexError when the pattern has no group
parse_log_entries(text, log_edit, time_edit) ==
    LET normalized == ReplaceCRLF(text)
        log_pattern == CompileLogPattern(log_edit)
        time_pattern == CompileTimePattern(time_edit)
        matches == FindIter(log_pattern, normalized)
    IN  IF matches # <<>> /\ NumGroups(log_pattern) < 1
        THEN [raised |-> TRUE, entries |-> <<>>]
        ELSE [raised |-> FALSE,
              entries |-> SelectSeq(StripEach(matches), NonEmpty)]

(***************************************************************************)
(* Timestamps.  A datetime is <<year, month, day, hour, minute, second,    *)
(* microsecond>>; None is the empty tuple.                                 *)
(***************************************************************************)
None == <<>>

\* datetime.datetime.min
DatetimeMin == <<1, 1, 1, 0, 0, 0, 0>>

\* a < b for datetimes: lexicographic on the fields from position k on
RECURSIVE DtLessFrom(_, _, _)
DtLessFrom(a, b, k) ==
    IF k > 7 THEN FALSE
    ELSE IF a[k] # b[k] THEN a[k] < b[k]
    ELSE DtLessFrom(a, b, k + 1)

DtLess(a, b) == DtLessFrom(a, b, 1)

DtLeq(a, b) == ~DtLess(b, a)

MonthOrNone(m) ==
    CASE m = <<"J", "a", "n">> -> 1
      [] m = <<"M", "a", "y">> -> 5
      [] m = <<"D", "e", "c">> -> 12
      [] OTHER -> 0

\* month_map.get(month_str, 1)
MonthOf(m) ==
    CASE m = <<"J", "a", "n">> -> 1
      [] m = <<"F", "e", "b">> -> 2
      [] m = <<"M", "a", "r">> -> 3
      [] m = <<"A", "p", "r">> -> 4
      [] m = <<"M", "a", "y">> -> 5
      [] m = <<"J", "u", "n">> -> 6
      [] m = <<"J", "u", "l">> -> 7
      [] m = <<"A", "u", "g">> -> 8
      [] m = <<"S", "e", "p">> -> 9
      [] m = <<"O", "c", "t">> -> 10
      [] m = <<"N", "o", "v">> -> 11
      [] m = <<"D", "e", "c">> -> 12
      [] OTHER -> 1

AnyDatetime(y, mo, d, h, mi, sec, us) == TRUE

\* datetime.datetime(y, mo, d, h, mi, sec, us) does not raise ValueError
ValidDatetime(y, mo, d, h, mi, sec, us) ==
    LET IsLeap == (y % 4 = 0 /\ y % 100 # 0) \/ y % 400 = 0
        DaysInMonth ==
            IF mo = 2 THEN (IF IsLeap THEN 29 ELSE 28)
            ELSE IF mo \in {4, 6, 9, 11} THEN 30
            ELSE 31
    IN  /\ y >= 1 /\ y <= 9999
        /\ mo >= 1 /\ mo <= 12
        /\ d >= 1 /\ d <= DaysInMonth
        /\ h <= 23 /\ mi <= 59 /\ sec <= 59
        /\ us <= 999999

\* the elements of a time pattern, in order: "w+" is (\w+), "s+" is \s+,
\* "d2" is (\d{1,2}), "d3" is (\d{1,3}), "d4" is (\d{4}), the others are
\* literal characters
TimeElems(p) ==
    IF p = DashTimePattern
    THEN <<"w+", "-", "d2", "-", "d2", ":", "d2", ":", "d2", ":", "d3", "-", "d4">>
    ELSE <<"w+", "s+", "d2", "s+", "d2", ":", "d2", ":", "d2", ":", "d3", "s+", "d4">>

\* the number of characters the element takes at position j, 0 when it does
\* not match there.  The quantifiers are greedy and every quantified class is
\* disjoint from the element that follows it, so the only length that can
\* lead to a match is the whole run, capped by the {m,n} bound
ElemLen(s, j, elem) ==
    CASE elem = "w+" -> RunLen(s, j, WordChars)
      [] elem = "s+" -> RunLen(s, j, Spaces)
      [] elem = "d2" -> Min(RunLen(s, j, Digits), 2)
      [] elem = "d3" -> Min(RunLen(s, j, Digits), 3)
      [] elem = "d4" -> (IF RunLen(s, j, Digits) >= 4 THEN 4 ELSE 0)
      [] OTHER -> (IF j <= Len(s) /\ s[j] = elem THEN 1 ELSE 0)

NoMatch == [ok |-> FALSE, start |-> 0, end |-> 0, groups |-> <<>>]

\* the elements elems matched from position j on, for a match that started
\* at position i and has captured groups so far;
\* "w+", "d2", "d3" and "d4" are capturing groups
RECURSIVE MatchElems(_, _, _, _, _)
MatchElems(s, i, j, elems, groups) ==
    IF elems = <<>> THEN [ok |-> TRUE, start |-> i, end |-> j, groups |-> groups]
    ELSE LET n == ElemLen(s, j, Head(elems))
         IN  IF n = 0 THEN NoMatch
             ELSE MatchElems(s, i, j + n, Tail(elems),
                             IF Head(elems) \in {"w+", "d2", "d3", "d4"}
                             THEN Append(groups, SubSeq(s, j, j + n - 1))
                             ELSE groups)

\* the time pattern p matched at position i of s
TimeMatchAt(p, s, i) == MatchElems(s, i, i, TimeElems(p), <<>>)

\* re.search(p, s): the leftmost match
TimeSearch(p, s) ==
    LET starts == {i \in 1..Len(s) : TimeMatchAt(p, s, i).ok}
    IN  IF starts = {} THEN NoMatch
        ELSE TimeMatchAt(p, s, CHOOSE i \in starts : \A j \in starts : i <= j)

\* utils.parse_log_time(time_str, time_regex_pattern)
parse_log_time(time_str, time_regex_pattern) ==
    LET match == TimeSearch(time_regex_pattern, time_str)
    IN  IF ~match.ok THEN None
        ELSE LET g     == match.groups
                 month == MonthOf(g[1])
                 us    == ToInt(g[6]) * 1000
             IN  IF ValidDatetime(ToInt(g[7]), month, ToInt(g[2]), ToInt(g[3]),
                                  ToInt(g[4]), ToInt(g[5]), us)
                 THEN <<ToInt(g[7]), month, ToInt(g[2]), ToInt(g[3]),
                        ToInt(g[4]), ToInt(g[5]), us>>
                 ELSE None

\* self.TIME_REGEX_PATTERN of the LogProcessor: set once by the constructor
\* from LogAnalyzerApp.TIME_REGEX_PATTERN and never assigned again
SelfTimePattern == TIME_REGEX_PATTERN

\* lines 20-36 with the time pattern p
ExtractWith(p, log_entry, source_file) ==
    LET time_match == TimeSearch(p, log_entry)
        time_str   == SubSeq(log_entry, time_match.start, time_match.end - 1)
    IN  IF time_match.ok
        THEN [content |-> log_entry,
              timestamp |-> parse_log_time(time_str, p),
              source_file |-> source_file, time_str |-> time_str]
        ELSE [content |-> log_entry, timestamp |-> None,
              source_file |-> source_file, time_str |-> <<>>]

\* LogProcessor.extract_log_info(log_entry, source_file)
extract_log_info(log_entry, source_file) ==
    ExtractWith(SelfTimePattern, log_entry, source_file)

(***************************************************************************)
(* process_file_content: the task of one file.                             *)
(***************************************************************************)
\* what a detector does on the bytes of a file: it raises (or cannot be
\* imported), it gives no result, or it gives decoded text
DetectorOutcomes == {"raise", "none", "text"}

\* line 91: encodings
FixedEncodings ==
    <<"utf-8", "gbk", "gb2312", "big5", "utf-16", "utf-16le", "utf-16be",
      "latin1">>

\* byte strings that are not ASCII text, a byte being written "\\xNN": the
\* encodings of the list whose strict decode accepts them, and the text the
\* first of these gives, a character being written "U+NNNN"
ByteSamples ==
    {[raw |-> <<"\\xc2", "\\x80">>,
      accepted |-> {"utf-8", "gbk", "utf-16", "utf-16le", "utf-16be", "latin1"},
      text |-> <<"U+0080">>],
     [raw |-> <<"\\xc4", "\\xe3">>,
      accepted |-> {"gbk", "gb2312", "big5", "utf-16", "utf-16le", "utf-16be", "latin1"},
      text |-> <<"U+4F60">>],
     [raw |-> <<"\\xa1", "\\xa1">>,
      accepted |-> {"gbk", "gb2312", "big5", "utf-16", "utf-16le", "utf-16be", "latin1"},
      text |-> <<"U+3000">>],
     [raw |-> <<"\\xa4", "@">>,
      accepted |-> {"big5", "utf-16", "utf-16le", "utf-16be", "latin1"},
      text |-> <<"U+4E00">>],
     [raw |-> <<"\\xa6", "\\xd9">>,
      accepted |-> {"big5", "utf-16be", "latin1"},
      text |-> <<"U+808C">>],
     [raw |-> <<"\\x80", "\\x00">>,
      accepted |-> {"utf-16", "utf-16le", "utf-16be", "latin1"},
      text |-> <<"U+0080">>],
     [raw |-> <<"\\xfe", "\\xff", "\\xd8", "\\x00">>,
      accepted |-> {"utf-16le", "latin1"},
      text |-> <<"U+FFFE", "U+00D8">>],
     [raw |-> <<"\\xff", "\\xfe", "\\x00", "\\xd8">>,
      accepted |-> {"utf-16be", "latin1"},
      text |-> <<"U+FFFE", "U+00D8">>],
     [raw |-> <<"\\xe9">>,
      accepted |-> {"latin1"},
      text |-> <<"U+00E9">>]}

\* line 94: raw.decode(encoding).  ok is that no UnicodeError is raised; text
\* is what the first encoding of the list that accepts raw gives, which is
\* the only text the loop of lines 92-97 reads.  ASCII bytes are accepted
\* by utf-8, which gives the same characters and ends the loop
StrictDecode(raw, encoding) ==
    IF \E b \in ByteSamples : b.raw = raw
    THEN LET b == CHOOSE b \in ByteSamples : b.raw = raw
         IN  [ok |-> encoding \in b.accepted, text |-> b.text]
    ELSE [ok |-> encoding \in {"utf-8", "gbk", "gb2312", "big5", "latin1"},
          text |-> raw]

\* lines 70-99: the decoded content.  The bytes of a text file are
\* represented by the text they decode to, and a detector that gives text
\* gives that text.  decoded = FALSE is content = None; bound tells whether
\* the local variable encodings has been assigned (line 91); tried lists
\* the detectors that ran and the encodings line 94 was reached with, in
\* order, and via is the one of them that gave content
ResolveEncoding(file_obj, primary, secondary) ==
    LET RECURSIVE TryEncodings(_, _)
        TryEncodings(n, tried) ==
            IF n > Len(FixedEncodings)
            THEN [decoded |-> FALSE, text |-> <<>>, bound |-> TRUE,
                  tried |-> tried, via |-> "none"]
            ELSE IF StrictDecode(file_obj.raw, FixedEncodings[n]).ok
            THEN [decoded |-> TRUE,
                  text |-> StrictDecode(file_obj.raw, FixedEncodings[n]).text,
                  bound |-> TRUE, tried |-> Append(tried, FixedEncodings[n]),
                  via |-> FixedEncodings[n]]
            ELSE TryEncodings(n + 1, Append(tried, FixedEncodings[n]))
        detected == StrictDecode(file_obj.raw, "latin1").text
    IN  IF file_obj.closed
        THEN [decoded |-> FALSE, text |-> <<>>, bound |-> FALSE,
              tried |-> <<>>, via |-> "none"]
        ELSE IF primary = "text"
        THEN [decoded |-> TRUE, text |-> detected, bound |-> FALSE,
              tried |-> <<"primary">>, via |-> "primary"]
        ELSE IF primary = "raise" /\ secondary = "text"
        THEN [decoded |-> TRUE, text |-> detected, bound |-> FALSE,
              tried |-> <<"primary", "secondary">>, via |-> "secondary"]
        ELSE IF primary = "raise"
        THEN TryEncodings(1, <<"primary", "secondary">>)
        ELSE TryEncodings(1, <<"primary">>)

RECURSIVE ExtractAll(_, _)
ExtractAll(entries, file_name) ==
    IF entries = <<>> THEN <<>>
    ELSE <<extract_log_info(Head(entries), file_name)>>
             \o ExtractAll(Tail(entries), file_name)

\* lines 100-123: what the task returns, or that it raised, for the outcome
\* res of lines 70-99; line 101 reads encodings, unbound when line 91 was
\* not reached
process_file_content(res, file_name, log_edit, time_edit) ==
    LET seg == parse_log_entries(res.text, log_edit, time_edit)
    IN  IF ~res.decoded
        THEN (IF res.bound
              THEN [raised |-> FALSE, logs |-> <<>>, file_name |-> file_name]
              ELSE [raised |-> TRUE, logs |-> <<>>, file_name |-> file_name])
        ELSE IF seg.raised
        THEN [raised |-> TRUE, logs |-> <<>>, file_name |-> file_name]
        ELSE [raised |-> FALSE, logs |-> ExtractAll(seg.entries, file_name),
              file_name |-> file_name]

\* the outcomes lines 70-99 can have on a file, over the runs of the two
\* detectors (the secondary detector runs only in the except clause of the
\* primary one, lines 79-88): what the rest of the task reads of them
Resolutions(file_obj) ==
    LET DetectorRuns ==
            {d \in DetectorOutcomes \X DetectorOutcomes :
                d[1] # "raise" => d[2] = "none"}
        Outcome(d) ==
            LET res == ResolveEncoding(file_obj, d[1], d[2])
            IN  [decoded |-> res.decoded, text |-> res.text,
                 bound |-> res.bound]
    IN  {Outcome(d) : d \in DetectorRuns}

(***************************************************************************)
(* process_log_files: the orchestrator.                                    *)
(***************************************************************************)
\* line 149: x.timestamp if x.timestamp else datetime.datetime.min
\* (a datetime is never falsy)
SortKey(x) == IF x.timestamp # None THEN x.timestamp ELSE DatetimeMin

\* list.sort is stable: x goes after every element whose key is <= its key
RECURSIVE InsertStable(_, _)
InsertStable(s, x) ==
    IF s = <<>> THEN <<x>>
    ELSE IF DtLess(SortKey(x), SortKey(Head(s))) THEN <<x>> \o s
    ELSE <<Head(s)>> \o InsertStable(Tail(s), x)

\* line 149: all_logs.sort(key=...)
RECURSIVE SortLogs(_)
SortLogs(s) ==
    IF s = <<>> THEN <<>>
    ELSE InsertStable(SortLogs(SubSeq(s, 1, Len(s) - 1)), s[Len(s)])

\* line 128: max_workers
MaxWorkers == Min(cpu_count, Len(uploaded_files))

\* line 130: zip(uploaded_files, file_names)
NumTasks == Min(Len(uploaded_files), Len(file_names))

Running == {k \in DOMAIN futures : futures[k] = "running"}

Queued == {k \in DOMAIN futures : futures[k] = "queued"}

FutureAsCompleted(k) == IF k <= Len(completed) THEN completed[k] ELSE k

\* line 136: the k-th future of enumerate(futures): the k-th submitted
FutureAt(k) == k

CollectFailedNever(failed, res) == failed

\* lines 138-144: failed_files after the result of one future
CollectFailed(failed, res) ==
    IF ~res.raised /\ res.logs = <<>> THEN Append(failed, res.file_name)
    ELSE failed

CollectLogsAssigned(merged, res) ==
    IF ~res.raised /\ res.logs # <<>> THEN res.logs
    ELSE merged

\* lines 138-144: all_logs after the result of one future
CollectLogs(merged, res) ==
    IF ~res.raised /\ res.logs # <<>> THEN merged \o res.logs
    ELSE merged

PropagateTaskError(res) == IF res.raised THEN "raised" ELSE "collect"

\* lines 137-144: where the orchestrator is after future.result(); the
\* except clause logs the exception of the task and goes on
AfterFutureResult(res) == "collect"

ProgressToHundred(i) == ((i + 1) * 100) \div Len(uploaded_files)

\* line 147: int(((idx + 1) / total_files) * 50); the float expression
\* gives this quotient for fewer than 50 files
ProgressOf(i) == ((i + 1) * 50) \div Len(uploaded_files)

pipelineVars == <<uploaded_files, file_names, log_regex_edit, time_regex_edit,
                  cpu_count, futures, task_result, completed, idx, all_logs,
                  failed_files, progress>>

segVars == <<content, parsed, entry, log_info, resolution>>

filterVars == <<logs, start_time, end_time, result>>

viewVars == <<keywords, time_range_check, search_edit, filter_mode_radio,
              current_logs, entry_to_id_map, log_id_map, current_page,
              log_display, watched_logs, written, analysis_started>>

StartWithoutFiles == TRUE

\* line 644 of main_window.py: not self.uploaded_files is false
HasUploadedFiles == uploaded_files # <<>>

\* lines 642-646 of main_window.py: process_files returns at once when no
\* file is uploaded; otherwise it goes on to call process_log_files
CheckUploaded ==
    /\ pc = "clicked"
    /\ pc' = IF HasUploadedFiles THEN "start" ELSE "returned"
    /\ UNCHANGED <<pipelineVars, segVars, filterVars, viewVars>>

\* lines 126-135: the executor is created and every file is submitted;
\* ThreadPoolExecutor(max_workers=0) raises ValueError
Submit ==
    /\ pc = "start"
    /\ IF MaxWorkers <= 0
       THEN /\ pc' = "raised"
            /\ UNCHANGED futures
       ELSE /\ pc' = "collect"
            /\ futures' = [k \in 1..NumTasks |-> "queued"]
    /\ UNCHANGED <<uploaded_files, file_names, log_regex_edit, time_regex_edit,
                   cpu_count, task_result, completed, idx, all_logs,
                   failed_files, progress, segVars, filterVars, viewVars>>

\* a worker thread takes the oldest queued work item
TaskStart ==
    /\ pc = "collect"
    /\ Queued # {}
    /\ Cardinality(Running) < MaxWorkers
    /\ LET k == CHOOSE q \in Queued : \A r \in Queued : q <= r
       IN  futures' = [futures EXCEPT ![k] = "running"]
    /\ UNCHANGED <<uploaded_files, file_names, log_regex_edit, time_regex_edit,
                   cpu_count, pc, task_result, completed, idx, all_logs,
                   failed_files, progress, segVars, filterVars, viewVars>>

\* a running task ends: process_file_content returns or raises
TaskFinish(k) ==
    /\ pc = "collect"
    /\ k \in Running
    /\ \E res \in Resolutions(uploaded_files[k]) :
          task_result' = [task_result EXCEPT ![k] =
              process_file_content(res, file_names[k], log_regex_edit,
                                   time_regex_edit)]
    /\ futures' = [futures EXCEPT ![k] = "done"]
    /\ completed' = Append(completed, k)
    /\ UNCHANGED <<uploaded_files, file_names, log_regex_edit, time_regex_edit,
                   cpu_count, pc, idx, all_logs, failed_files, progress,
                   segVars, filterVars, viewVars>>

\* lines 136-148: one iteration of the loop over the futures
Collect ==
    /\ pc = "collect"
    /\ idx < Len(futures)
    /\ futures[FutureAt(idx + 1)] = "done"
    /\ LET res == task_result[FutureAt(idx + 1)]
       IN  /\ failed_files' = CollectFailed(failed_files, res)
           /\ all_logs' = CollectLogs(all_logs, res)
           /\ pc' = AfterFutureResult(res)
    /\ progress' = Append(progress, ProgressOf(idx))
    /\ idx' = idx + 1
    /\ UNCHANGED <<uploaded_files, file_names, log_regex_edit, time_regex_edit,
                   cpu_count, futures, task_result, completed, segVars,
                   filterVars, viewVars>>

\* lines 149-154: the executor has shut down; sort, report 60, return
SortAndReturn ==
    /\ pc = "collect"
    /\ idx = Len(futures)
    /\ Running = {} /\ Queued = {}
    /\ all_logs' = SortLogs(all_logs)
    /\ progress' = Append(progress, 60)
    /\ pc' = "done"
    /\ UNCHANGED <<uploaded_files, file_names, log_regex_edit, time_regex_edit,
                   cpu_count, futures, task_result, completed, idx,
                   failed_files, segVars, filterVars, viewVars>>

(***************************************************************************)
(* LogProcessor.filter_logs_by_time_range.                                 *)
(***************************************************************************)
KeepUnstampedWhenUnbounded(log, start, end) ==
    IF log.timestamp = None THEN start = None /\ end = None
    ELSE /\ ~(start # None /\ DtLess(log.timestamp, start))
         /\ ~(end # None /\ DtLess(end, log.timestamp))

KeepEndExclusive(log, start, end) ==
    /\ log.timestamp # None
    /\ ~(start # None /\ DtLess(log.timestamp, start))
    /\ ~(end # None /\ DtLeq(end, log.timestamp))

\* lines 165-175: the entry reaches result.append(log)
KeepInRange(log, start, end) ==
    /\ log.timestamp # None
    /\ ~(start # None /\ DtLess(log.timestamp, start))
    /\ ~(end # None /\ DtLess(end, log.timestamp))

\* lines 163-176
RECURSIVE filter_logs_by_time_range(_, _, _)
filter_logs_by_time_range(ls, start, end) ==
    IF ls = <<>> THEN <<>>
    ELSE (IF KeepInRange(Head(ls), start, end) THEN <<Head(ls)>> ELSE <<>>)
             \o filter_logs_by_time_range(Tail(ls), start, end)

(***************************************************************************)
(* LogProcessor.filter_logs_by_keywords.  A keyword is a sequence of       *)
(* elements: one-character strings and, for a regular expression, the      *)
(* group opener "(?P<n>" as one element.  The code point U+0130 (capital I *)
(* with dot above) and the combining dot U+0307 are the elements "U+0130"  *)
(* and "U+0307".                                                           *)
(***************************************************************************)
UpperCase == <<"A", "B", "E", "R">>

LowerCase == <<"a", "b", "e", "r">>

\* str.lower() of one code point; U+0130 lowers to two code points
LowerChar(c) ==
    IF c = "U+0130" THEN <<"i", "U+0307">>
    ELSE IF \E n \in 1..Len(UpperCase) : UpperCase[n] = c
         THEN <<LowerCase[CHOOSE n \in 1..Len(UpperCase) : UpperCase[n] = c]>>
         ELSE <<c>>

\* str.lower()
RECURSIVE Lower(_)
Lower(s) == IF s = <<>> THEN <<>> ELSE LowerChar(Head(s)) \o Lower(Tail(s))

\* s[i:].startswith(t), with i counted from 0
StartsWithAt(s, i, t) ==
    /\ i + Len(t) <= Len(s)
    /\ \A n \in 1..Len(t) : s[i + n] = t[n]

\* str.find(t, start): the lowest offset >= start where t occurs, or -1
Find(s, t, start) ==
    IF \E i \in start..Len(s) : StartsWithAt(s, i, t)
    THEN CHOOSE i \in start..Len(s) :
             /\ StartsWithAt(s, i, t)
             /\ \A j \in start..(i - 1) : ~StartsWithAt(s, j, t)
    ELSE -1

\* t in s
Contains(s, t) == Find(s, t, 0) # -1

GroupOpeners == {"(", "(?P<n>"}

\* line 189: re.search(r'[.*+?^${}()|[\]\\]', k)
HasRegexChar(k) ==
    LET RegexChars == {".", "*", "+", "?", "^", "$", "{", "}", "(", ")", "|",
                       "[", "]", "\\"}
    IN  \E n \in 1..Len(k) : k[n] \in RegexChars \cup {"(?P<n>"}

\* line 183: [k.strip() for k in keywords if k.strip()]
RECURSIVE ValidKeywords(_)
ValidKeywords(kws) ==
    IF kws = <<>> THEN <<>>
    ELSE (IF Strip(Head(kws)) # <<>> THEN <<Strip(Head(kws))>> ELSE <<>>)
             \o ValidKeywords(Tail(kws))

\* line 197: "|".join(valid_keywords)
RECURSIVE JoinAlternation(_)
JoinAlternation(kws) ==
    IF kws = <<>> THEN <<>>
    ELSE IF Len(kws) = 1 THEN Head(kws)
    ELSE Head(kws) \o <<"|">> \o JoinAlternation(Tail(kws))

\* the nesting depth of groups after the first n elements of a pattern, or
\* -1 once a ")" closed no group
RECURSIVE GroupDepth(_, _)
GroupDepth(p, n) ==
    IF n = 0 THEN 0
    ELSE LET before == GroupDepth(p, n - 1)
         IN  IF before = -1 THEN -1
             ELSE IF p[n] \in GroupOpeners THEN before + 1
             ELSE IF p[n] = ")" THEN before - 1
             ELSE before

\* re.compile of a keyword pattern made of literals, ".", "|" and groups:
\* re.error for an unterminated group, an unbalanced ")" and a group name
\* defined twice
KeywordCompiles(p) ==
    /\ GroupDepth(p, Len(p)) = 0
    /\ Cardinality({n \in 1..Len(p) : p[n] = "(?P<n>"}) <= 1

\* the alternatives of a compiled pattern: split at the "|" outside groups
RECURSIVE Alternatives(_, _, _)
Alternatives(p, n, current) ==
    IF n > Len(p) THEN <<current>>
    ELSE IF p[n] = "|" /\ GroupDepth(p, n) = 0
         THEN <<current>> \o Alternatives(p, n + 1, <<>>)
         ELSE Alternatives(p, n + 1, Append(current, p[n]))

\* pattern.search(content) is not None.  The atoms of an alternative are
\* its elements but the group delimiters, which consume nothing; under
\* re.IGNORECASE a literal matches the character of either case, and "."
\* matches any character but a newline
PatternSearch(p, text) ==
    LET Atoms(alt) == SelectSeq(alt, LAMBDA e : e \notin GroupOpeners \cup {")"})
        AtomMatches(atom, c) ==
            IF atom = "." THEN c # "\n" ELSE LowerChar(atom) = LowerChar(c)
        AtomsMatchAt(atoms, i) ==
            /\ i + Len(atoms) <= Len(text)
            /\ \A n \in 1..Len(atoms) : AtomMatches(atoms[n], text[i + n])
    IN  \E a \in 1..Len(Alternatives(p, 1, <<>>)) :
            \E i \in 0..Len(text) :
                AtomsMatchAt(Atoms(Alternatives(p, 1, <<>>)[a]), i)

\* line 192
batch_size == 10000

\* lines 195-201: how the entries are tested.  In regex mode the combined
\* alternation is compiled; when that raises, every keyword is compiled on
\* its own, outside any try: a keyword that does not compile raises re.error
KeywordMatcher(valid) ==
    IF ~(\E n \in 1..Len(valid) : HasRegexChar(valid[n]))
    THEN [mode |-> "plain", raised |-> FALSE]
    ELSE IF KeywordCompiles(JoinAlternation(valid))
    THEN [mode |-> "combined", raised |-> FALSE]
    ELSE [mode |-> "each",
          raised |-> \E n \in 1..Len(valid) : ~KeywordCompiles(valid[n])]

KeywordMatchCaseSensitive(mode, valid, text) ==
    CASE mode = "combined" -> PatternSearch(JoinAlternation(valid), text)
      [] mode = "each" ->
             \E n \in 1..Len(valid) : PatternSearch(valid[n], text)
      [] OTHER -> \E n \in 1..Len(valid) : Contains(text, valid[n])

\* lines 206-211 and 220-223: the test of one entry
KeywordMatch(mode, valid, text) ==
    CASE mode = "combined" -> PatternSearch(JoinAlternation(valid), text)
      [] mode = "each" ->
             \E n \in 1..Len(valid) : PatternSearch(valid[n], text)
      [] OTHER ->
             \E n \in 1..Len(valid) : Contains(Lower(text), Lower(valid[n]))

RECURSIVE BatchLoopKeepsLastFlush(_, _, _, _, _, _)
BatchLoopKeepsLastFlush(ls, mode, valid, filtered_logs, batch, size) ==
    IF ls = <<>> THEN [filtered_logs |-> filtered_logs, batch |-> batch]
    ELSE LET appended == IF KeywordMatch(mode, valid, Head(ls).content)
                         THEN Append(batch, Head(ls)) ELSE batch
         IN  IF Len(appended) >= size
             THEN BatchLoopKeepsLastFlush(Tail(ls), mode, valid, appended, <<>>,
                                          size)
             ELSE BatchLoopKeepsLastFlush(Tail(ls), mode, valid, filtered_logs,
                                          appended, size)

\* lines 203-229: the loop over logs, with the batch flushed into
\* filtered_logs whenever it holds size entries
RECURSIVE BatchLoop(_, _, _, _, _, _)
BatchLoop(ls, mode, valid, filtered_logs, batch, size) ==
    IF ls = <<>> THEN [filtered_logs |-> filtered_logs, batch |-> batch]
    ELSE LET appended == IF KeywordMatch(mode, valid, Head(ls).content)
                         THEN Append(batch, Head(ls)) ELSE batch
         IN  IF Len(appended) >= size
             THEN BatchLoop(Tail(ls), mode, valid, filtered_logs \o appended,
                            <<>>, size)
             ELSE BatchLoop(Tail(ls), mode, valid, filtered_logs, appended, size)

FilterKeywordsNoShortcut(ls, kws) ==
    LET valid == ValidKeywords(kws)
        loop  == BatchLoop(ls, "plain", valid, <<>>, <<>>, batch_size)
    IN  [raised |-> FALSE, logs |-> loop.filtered_logs \o loop.batch]

\* lines 178-233
filter_logs_by_keywords(ls, kws) ==
    LET valid   == ValidKeywords(kws)
        matcher == KeywordMatcher(valid)
        loop    == BatchLoop(ls, matcher.mode, valid, <<>>, <<>>, batch_size)
    IN  IF kws = <<>> \/ valid = <<>> THEN [raised |-> FALSE, logs |-> ls]
        ELSE IF matcher.raised THEN [raised |-> TRUE, logs |-> <<>>]
        ELSE [raised |-> FALSE, logs |-> loop.filtered_logs \o loop.batch]

(***************************************************************************)
(* The main window: _load_page, display_logs, the rest of process_files    *)
(* after process_log_files has returned, the handlers of the list widget   *)
(* and the exports.  A log id is str(idx); the model keeps idx, which      *)
(* int(log_id) gives back.                                                 *)
(***************************************************************************)
\* line 27
page_size == 1000

\* str.split("\n")
RECURSIVE SplitLines(_, _)
SplitLines(text, current) ==
    IF text = <<>> THEN <<current>>
    ELSE IF Head(text) = "\n" THEN <<current>> \o SplitLines(Tail(text), <<>>)
    ELSE SplitLines(Tail(text), Append(current, Head(text)))

\* lines 661 and 811: [kw.strip() for kw in text.split("\n") if kw.strip()]
KeywordsOf(text) == ValidKeywords(SplitLines(text, <<>>))

\* lines 745-751: the spans of one keyword, scanning content_lower from
\* start_pos; the span is as long as the keyword, not as keyword_lower
RECURSIVE KeywordSpans(_, _, _)
KeywordSpans(content_lower, keyword, start_pos) ==
    LET pos == Find(content_lower, Lower(keyword), start_pos)
    IN  IF pos = -1 THEN <<>>
        ELSE <<<<pos, pos + Len(keyword)>>>>
                 \o KeywordSpans(content_lower, keyword, pos + Len(keyword))

\* lines 739-751: the spans of the keywords, keyword by keyword
RECURSIVE AllSpans(_, _)
AllSpans(text, kws) ==
    IF kws = <<>> THEN <<>>
    ELSE (IF Head(kws) = <<>> THEN <<>>
          ELSE KeywordSpans(Lower(text), Head(kws), 0))
             \o AllSpans(text, Tail(kws))

\* line 753: highlight_data.sort(key=lambda x: x[0]), a stable sort
RECURSIVE SortSpans(_)
SortSpans(s) ==
    LET RECURSIVE InsertSpan(_, _)
        InsertSpan(t, x) ==
            IF t = <<>> THEN <<x>>
            ELSE IF x[1] < Head(t)[1] THEN <<x>> \o t
            ELSE <<Head(t)>> \o InsertSpan(Tail(t), x)
    IN  IF s = <<>> THEN <<>>
        ELSE InsertSpan(SortSpans(SubSeq(s, 1, Len(s) - 1)), s[Len(s)])

\* lines 714-756: the items of the page, one for each current_logs[idx]
\* from start_idx to end_idx.  highlight_data is the data of role
\* UserRole + 1 (lines 736-754): None when highlight_keywords is None or
\* empty
PageItems(ls, watched, page_number, kws) ==
    LET start_idx == page_number * page_size
        end_idx   == Min(start_idx + page_size, Len(ls))
        item(log, idx0) ==
            [text |-> log.content,
             log_id |-> idx0,
             checked |-> \E n \in 1..Len(watched) : watched[n] = log,
             highlight_data |-> IF kws = <<>> THEN None
                                ELSE SortSpans(AllSpans(log.content, kws))]
    IN  [n \in 1..(end_idx - start_idx) |->
             item(ls[start_idx + n], start_idx + n - 1)]

\* lines 776-779: entry_to_id_map; an entry that occurs twice keeps the
\* id of its last occurrence
EntryToId(ls) ==
    [e \in {ls[n] : n \in 1..Len(ls)} |->
        CHOOSE i \in 0..(Len(ls) - 1) :
            /\ ls[i + 1] = e
            /\ \A j \in (i + 1)..(Len(ls) - 1) : ls[j + 1] # e]

\* lines 760-783: display_logs(logs, highlight_keywords), as the new values
\* of current_logs, the two id maps, current_page and the items; with no
\* entry _load_page returns at once and the widget stays cleared.  Line
\* 767 sorts with the key of line 149
display_logs(ls, kws) ==
    LET sorted_logs == SortLogs(ls)
    IN  [current_logs    |-> sorted_logs,
         entry_to_id_map |-> EntryToId(sorted_logs),
         log_id_map      |-> sorted_logs,
         current_page    |-> 0,
         log_display     |-> IF sorted_logs = <<>> THEN <<>>
                             ELSE PageItems(sorted_logs, watched_logs, 0, kws)]

\* lines 648-659: the bounds handed to the time filter
RangeBound(t) == IF time_range_check THEN t ELSE None

KeywordFilterInBothModes(filter_mode, filtered, kws) ==
    filter_logs_by_keywords(filtered, kws)

\* lines 689-695: the list handed to display_logs
ListToDisplay(filter_mode, filtered, kws) ==
    IF filter_mode THEN filter_logs_by_keywords(filtered, kws)
    ELSE [raised |-> FALSE, logs |-> filtered]

\* lines 689-695: the highlight_keywords handed to display_logs
HighlightKeywords(filter_mode, kws) == IF filter_mode THEN <<>> ELSE kws

displayVars == <<current_logs, entry_to_id_map, log_id_map, current_page,
                 log_display>>

widgetVars == <<time_range_check, search_edit, filter_mode_radio>>

\* lines 682-705 of process_files, with the bounds and keywords of lines
\* 648-661, after the failed files have been removed; an exception of the
\* keyword filter is caught at line 701 and nothing is displayed
Analyse ==
    /\ pc = "processed"
    /\ LET kws      == KeywordsOf(search_edit)
           filtered == filter_logs_by_time_range(all_logs, RangeBound(start_time),
                                                 RangeBound(end_time))
           chosen   == ListToDisplay(filter_mode_radio, filtered, kws)
           shown    == display_logs(chosen.logs,
                                    HighlightKeywords(filter_mode_radio, kws))
       IN  IF chosen.raised
           THEN pc' = "error" /\ UNCHANGED <<displayVars, analysis_started>>
           ELSE /\ pc' = "displayed"
                /\ current_logs' = shown.current_logs
                /\ entry_to_id_map' = shown.entry_to_id_map
                /\ log_id_map' = shown.log_id_map
                /\ current_page' = shown.current_page
                /\ log_display' = shown.log_display
                /\ analysis_started' = TRUE
    /\ UNCHANGED <<pipelineVars, segVars, filterVars, keywords, widgetVars,
                   watched_logs, written>>

\* list.remove(x): the first element equal to x goes
RECURSIVE RemoveFirst(_, _)
RemoveFirst(s, x) ==
    IF s = <<>> THEN <<>>
    ELSE IF Head(s) = x THEN Tail(s)
    ELSE <<Head(s)>> \o RemoveFirst(Tail(s), x)

\* lines 789-818: on_log_item_changed for item n of log_display, whose
\* check box the user has just changed; lines 809-812 reload the page with
\* the keywords of the box in highlight mode, without keywords otherwise
Toggle(n) ==
    /\ pc = "displayed"
    /\ n \in DOMAIN log_display
    /\ log_display[n].log_id + 1 \in DOMAIN log_id_map
    /\ LET log_data == log_id_map[log_display[n].log_id + 1]
           listed   == \E m \in 1..Len(watched_logs) : watched_logs[m] = log_data
           watched  == IF ~log_display[n].checked
                       THEN (IF listed THEN watched_logs
                             ELSE Append(watched_logs, log_data))
                       ELSE (IF listed THEN RemoveFirst(watched_logs, log_data)
                             ELSE watched_logs)
           highlight_keywords ==
               IF ~filter_mode_radio THEN KeywordsOf(search_edit) ELSE <<>>
       IN  /\ watched_logs' = watched
           /\ log_display' = PageItems(current_logs, watched, current_page,
                                       highlight_keywords)
    /\ UNCHANGED <<pipelineVars, segVars, filterVars, keywords, widgetVars, pc,
                   current_logs, entry_to_id_map, log_id_map, current_page,
                   written, analysis_started>>

\* line 862: int(scroll_percentage * (len(current_logs) / page_size)) for
\* the scroll bar at value of maximum
ScrolledPage(value, maximum) ==
    (value * Len(current_logs)) \div ((IF maximum = 0 THEN 1 ELSE maximum) * page_size)

\* lines 852-865: handle_scroll(value); line 865 is
\* _load_page(current_page), highlight_keywords left at None
Scroll(value, maximum) ==
    /\ pc = "displayed"
    /\ current_logs # <<>>
    /\ ScrolledPage(value, maximum) # current_page
    /\ current_page' = ScrolledPage(value, maximum)
    /\ log_display' = PageItems(current_logs, watched_logs,
                                ScrolledPage(value, maximum), <<>>)
    /\ UNCHANGED <<pipelineVars, segVars, filterVars, keywords, widgetVars, pc,
                   current_logs, entry_to_id_map, log_id_map, watched_logs,
                   written, analysis_started>>

\* lines 504 and 529: source_file.split('/')[-1]
RECURSIVE LastSegment(_, _)
LastSegment(name, current) ==
    IF name = <<>> THEN current
    ELSE IF Head(name) = "/" THEN LastSegment(Tail(name), <<>>)
    ELSE LastSegment(Tail(name), Append(current, Head(name)))

\* lines 499 and 524: the (id, log) pairs of the entries that have an id
RECURSIVE LogsWithId(_, _)
LogsWithId(ls, map) ==
    IF ls = <<>> THEN <<>>
    ELSE (IF Head(ls) \in DOMAIN map
          THEN <<<<map[Head(ls)], Head(ls)>>>> ELSE <<>>)
             \o LogsWithId(Tail(ls), map)

\* lines 500 and 525: logs_with_id.sort(key=lambda x: int(x[0])), a stable
\* sort
RECURSIVE SortById(_)
SortById(s) ==
    LET RECURSIVE InsertById(_, _)
        InsertById(t, x) ==
            IF t = <<>> THEN <<x>>
            ELSE IF x[1] < Head(t)[1] THEN <<x>> \o t
            ELSE <<Head(t)>> \o InsertById(Tail(t), x)
    IN  IF s = <<>> THEN <<>>
        ELSE InsertById(SortById(SubSeq(s, 1, Len(s) - 1)), s[Len(s)])

\* lines 501-508 and 526-533: what is written, entry by entry: the source
\* line when the check box is checked, then the content and "\n\n"
RECURSIVE WriteLogs(_, _)
WriteLogs(pairs, source_check) ==
    IF pairs = <<>> THEN <<>>
    ELSE <<[source_info |-> IF source_check
                            THEN LastSegment(Head(pairs)[2].source_file, <<>>)
                            ELSE None,
            content |-> Head(pairs)[2].content]>>
             \o WriteLogs(Tail(pairs), source_check)

\* lines 514-537: export_displayed_logs, the file dialog answered with a
\* path; source_check is display_source_check
ExportDisplayed(source_check) ==
    /\ pc = "displayed"
    /\ current_logs # <<>>
    /\ written' = WriteLogs(SortById(LogsWithId(current_logs, entry_to_id_map)),
                            source_check)
    /\ UNCHANGED <<pipelineVars, segVars, filterVars, keywords, widgetVars, pc,
                   displayVars, watched_logs, analysis_started>>

\* lines 486-512: export_logs, the file dialog answered with a path;
\* source_check is watched_source_check
ExportWatched(source_check) ==
    /\ pc = "displayed"
    /\ watched_logs # <<>>
    /\ written' = WriteLogs(SortById(LogsWithId(watched_logs, entry_to_id_map)),
                            source_check)
    /\ UNCHANGED <<pipelineVars, segVars, filterVars, keywords, widgetVars, pc,
                   displayVars, watched_logs, analysis_started>>

(***************************************************************************)
(* The inputs of the model.                                                *)
(***************************************************************************)
\* "%@1%A\n%@2%B\n"
TextAB ==
    <<"%", "@", "1", "%", "A", "\n", "%", "@", "2", "%", "B", "\n">>

\* the files of a run: a closed BytesIO (seek raises ValueError), an empty
\* one, and these texts
FileKinds ==
    LET
        \* "%@1%x\n%@2%a 1 0:0:0:0 0001": an entry without a timestamp, then one at
        \* datetime.min (the month name a is unknown: month 1)
        TextNoneMin ==
            <<"%", "@", "1", "%", "x", "\n", "%", "@", "2", "%", "a", " ", "1", " ",
              "0", ":", "0", ":", "0", ":", "0", " ", "0", "0", "0", "1">>

        \* "%@1%a 1 0:0:0:1 0001\r\n%@2%a 1 0:0:0:0 0001": one millisecond after
        \* datetime.min, then datetime.min
        TextLateMin ==
            <<"%", "@", "1", "%", "a", " ", "1", " ", "0", ":", "0", ":", "0", ":",
              "1", " ", "0", "0", "0", "1", "\r", "\n", "%", "@", "2", "%", "a", " ",
              "1", " ", "0", ":", "0", ":", "0", ":", "0", " ", "0", "0", "0", "1">>

        \* "%@1%a-1-0:0:0:2-0001\n%@2%May 32 1:2:3:4 2025": a time only DashTimePattern
        \* matches, then a time TIME_REGEX_PATTERN matches whose day is 32
        TextDashBad ==
            <<"%", "@", "1", "%", "a", "-", "1", "-", "0", ":", "0", ":", "0", ":",
              "2", "-", "0", "0", "0", "1", "\n", "%", "@", "2", "%", "M", "a", "y",
              " ", "3", "2", " ", "1", ":", "2", ":", "3", ":", "4", " ", "2", "0",
              "2", "5">>

        \* a text without a marker
        TextNoMarker == <<"x">>
    IN  {[closed |-> TRUE, raw |-> <<>>], [closed |-> FALSE, raw |-> <<>>],
         [closed |-> FALSE, raw |-> TextNoMarker],
         [closed |-> FALSE, raw |-> TextNoneMin],
         [closed |-> FALSE, raw |-> TextLateMin],
         [closed |-> FALSE, raw |-> TextDashBad]}

\* the paths of the files: handle_file_upload adds a path once only
NameOf(k) == <<"f", <<"1", "2", "3", "4", "5", "6", "7", "8", "9">>[k]>>

SeqsUpTo(S, n) == UNION {[1..m -> S] : m \in 0..n}

\* texts made of markers, each followed by a body without a marker
PartsSeqs ==
    LET MarkerDigits == {<<"1">>, <<"2">>, <<"1", "2">>}
        Bodies ==
            {<<>>, <<"A">>, <<"A", "\n">>, <<"B", "\n">>, <<" ", "A", " ">>,
             <<"\r", "\n", "B">>, <<" ">>}
    IN  SeqsUpTo(MarkerDigits \X Bodies, MaxParts) \ {<<>>}

MarkerOf(digits) == <<"%", "@">> \o digits \o <<"%">>

RECURSIVE Concat(_)
Concat(parts) ==
    IF parts = <<>> THEN <<>>
    ELSE MarkerOf(Head(parts)[1]) \o Head(parts)[2] \o Concat(Tail(parts))

MarkerTexts == {Concat(parts) : parts \in PartsSeqs}

\* entry texts with a time the default time pattern matches: what comes before
\* the time, the month name with the month month_map gives it, the day, the
\* time of day, the milliseconds, the year, and what comes after the year,
\* each text field with the number it denotes
TimeParts ==
    [prefix : {<<>>, <<"x", " ">>, <<"%", "@", "1", "%">>},
     month  : {<<<<"M", "a", "y">>, 5>>, <<<<"J", "a", "n">>, 1>>, <<<<"D", "e", "c">>, 12>>,
               <<<<"F", "o", "o">>, 1>>, <<<<"M", "A", "y">>, 1>>, <<<<"a">>, 1>>},
     day    : {<<<<"3">>, 3>>, <<<<"0", "3">>, 3>>},
     clock  : {<<<<"1", "0", ":", "2", "0", ":", "3", "0">>, <<10, 20, 30>>>>,
               <<<<"1", ":", "0", "2", ":", "3">>, <<1, 2, 3>>>>},
     ms     : {<<<<"1", "2", "3">>, 123>>, <<<<"1">>, 1>>, <<<<"0", "1", "2">>, 12>>},
     year   : {<<<<"2", "0", "2", "5">>, 2025>>, <<<<"0", "0", "0", "1">>, 1>>},
     suffix : {<<>>, <<" ", "x">>}]

\* the time text of the parts, and the entry text around it
TimeTextOf(parts) ==
    parts.month[1] \o <<" ">> \o parts.day[1] \o <<" ">> \o parts.clock[1]
        \o <<":">> \o parts.ms[1] \o <<" ">> \o parts.year[1]

EntryTextOf(parts) == parts.prefix \o TimeTextOf(parts) \o parts.suffix

\* entry texts without a time: no text, no digits, no milliseconds, a year
\* of two digits, a month name that does not touch the day
UntimedTexts ==
    {<<>>, <<"%", "@", "1", "%", "x">>,
     <<"M", "a", "y", " ", "3", " ", "1", "0", ":", "2", "0", ":", "3", "0", " ", "2", "0", "2", "5">>,
     <<"M", "a", "y", " ", "3", " ", "1", "0", ":", "2", "0", ":", "3", "0", ":", "1", "2", "3", " ", "2", "5">>,
     <<"M", "a", "y", ":", " ", "3", " ", "1", "0", ":", "2", "0", ":", "3", "0", ":", "1", "2", "3", " ", "2", "0", "2", "5">>}

\* the entries filter_logs_by_time_range is applied to
T1 == <<2025, 5, 3, 10, 20, 30, 122000>>

T2 == <<2025, 5, 3, 10, 20, 30, 123000>>

T3 == <<2025, 5, 3, 10, 20, 30, 124000>>

Times == {DatetimeMin, T1, T2, T3}

\* the entry of file f1 with this content and timestamp
ViewEntry(c, t) ==
    [content |-> c, timestamp |-> t, source_file |-> NameOf(1),
     time_str |-> <<>>]

\* a displayed list longer than one page: "b" and "ab" in turn, then "Erb",
\* all at T1
LongLogs ==
    [i \in 1..(page_size + 1) |->
        IF i = page_size + 1 THEN ViewEntry(<<"E", "r", "b">>, T1)
        ELSE IF i % 2 = 1 THEN ViewEntry(<<"b">>, T1)
        ELSE ViewEntry(<<"a", "b">>, T1)]

\* "foo bar foo"
TextFooBar == <<"f", "o", "o", " ", "b", "a", "r", " ", "f", "o", "o">>

(***************************************************************************)
(* The specifications.                                                     *)
(***************************************************************************)
IdlePipeline ==
    /\ uploaded_files = <<>> /\ file_names = <<>>
    /\ cpu_count = 1
    /\ futures = <<>> /\ task_result = <<>> /\ completed = <<>> /\ idx = 0
    /\ all_logs = <<>> /\ failed_files = <<>> /\ progress = <<>>

IdleSeg ==
    /\ content = <<>> /\ parsed = [raised |-> FALSE, entries |-> <<>>]
    /\ entry = <<>> /\ log_info = None /\ resolution = None

IdleFilter ==
    logs = <<>> /\ start_time = None /\ end_time = None /\ result = <<>>

\* lines 27-28 and 60-66 of main_window.py: the window after construction
IdleView ==
    /\ keywords = <<>> /\ time_range_check = FALSE /\ search_edit = <<>>
    /\ filter_mode_radio = TRUE
    /\ current_logs = <<>> /\ entry_to_id_map = <<>> /\ log_id_map = <<>>
    /\ current_page = 0 /\ log_display = <<>> /\ watched_logs = <<>>
    /\ written = <<>> /\ analysis_started = FALSE

\* one click on the analysis button: process_files up to the return of
\* process_log_files
Init ==
    LET
        \* the texts of the two edit boxes in a run: the defaults (the initial text
        \* of the boxes), or one of the boxes edited
        EditPairs ==
            {<<LOG_REGEX_PATTERN, TIME_REGEX_PATTERN>>,
             <<LOG_REGEX_PATTERN, DashTimePattern>>,
             <<LOG_REGEX_PATTERN, <<>>>>,
             <<InvalidPattern, TIME_REGEX_PATTERN>>,
             <<NoGroupPattern, TIME_REGEX_PATTERN>>}
    IN
    /\ \E n \in 0..MaxFiles :
          /\ uploaded_files \in [1..n -> FileKinds]
          /\ file_names = [k \in 1..n |-> NameOf(k)]
          /\ task_result =
                 [k \in 1..n |-> [raised |-> FALSE, logs |-> <<>>,
                                  file_name |-> <<>>]]
    /\ \E e \in EditPairs : log_regex_edit = e[1] /\ time_regex_edit = e[2]
    /\ cpu_count \in 1..MaxCpu
    /\ pc = "clicked"
    /\ futures = <<>> /\ completed = <<>> /\ idx = 0
    /\ all_logs = <<>> /\ failed_files = <<>> /\ progress = <<>>
    /\ IdleSeg /\ IdleFilter /\ IdleView

Next ==
    \/ CheckUploaded
    \/ Submit
    \/ TaskStart
    \/ \E k \in DOMAIN futures : TaskFinish(k)
    \/ Collect
    \/ SortAndReturn

Spec == Init /\ [][Next]_vars

\* one call of parse_log_entries
InitSeg ==
    LET
        SegLogEdits ==
            {LOG_REGEX_PATTERN, <<>>, <<" ", "\n">>, <<" ">> \o LOG_REGEX_PATTERN \o <<"\n">>,
             InvalidPattern, LinePattern, NoGroupPattern}
    IN
    /\ content \in SeqsUpTo({"%", "@", "1", "A", " ", "\n"}, MaxLen)
                       \cup MarkerTexts
    /\ log_regex_edit \in SegLogEdits
    /\ time_regex_edit = TIME_REGEX_PATTERN
    /\ pc = "segment"
    /\ parsed = [raised |-> FALSE, entries |-> <<>>]
    /\ entry = <<>> /\ log_info = None /\ resolution = None
    /\ IdlePipeline /\ IdleFilter /\ IdleView

Segment ==
    /\ pc = "segment"
    /\ parsed' = parse_log_entries(content, log_regex_edit, time_regex_edit)
    /\ pc' = "segmented"
    /\ UNCHANGED <<pipelineVars, content, entry, log_info, resolution,
                   filterVars, viewVars>>

NextSeg == Segment

SpecSeg == InitSeg /\ [][NextSeg]_vars

\* one call of extract_log_info by process_file_content (lines 112-115)
InitExtract ==
    /\ entry \in {EntryTextOf(parts) : parts \in TimeParts} \cup UntimedTexts
    /\ log_info = None
    /\ pc = "extract"
    /\ log_regex_edit = LOG_REGEX_PATTERN /\ time_regex_edit = TIME_REGEX_PATTERN
    /\ content = <<>> /\ parsed = [raised |-> FALSE, entries |-> <<>>]
    /\ resolution = None
    /\ IdlePipeline /\ IdleFilter /\ IdleView

Extract ==
    /\ pc = "extract"
    /\ log_info' = extract_log_info(entry, NameOf(1))
    /\ pc' = "extracted"
    /\ UNCHANGED <<pipelineVars, content, parsed, entry, resolution, filterVars,
                   viewVars>>

NextExtract == Extract

SpecExtract == InitExtract /\ [][NextExtract]_vars

\* lines 70-99 of process_file_content on one file: a closed one, ASCII
\* text, or bytes that are not ASCII text
InitEncoding ==
    /\ uploaded_files \in
           {<<file_obj>> :
               file_obj \in {[closed |-> TRUE, raw |-> <<>>],
                             [closed |-> FALSE, raw |-> <<>>],
                             [closed |-> FALSE, raw |-> <<"x">>]}
                            \cup {[closed |-> FALSE, raw |-> b.raw] :
                                      b \in ByteSamples}}
    /\ file_names = <<NameOf(1)>>
    /\ resolution = None
    /\ pc = "resolve"
    /\ log_regex_edit = LOG_REGEX_PATTERN /\ time_regex_edit = TIME_REGEX_PATTERN
    /\ cpu_count = 1
    /\ futures = <<>> /\ task_result = <<>> /\ completed = <<>> /\ idx = 0
    /\ all_logs = <<>> /\ failed_files = <<>> /\ progress = <<>>
    /\ content = <<>> /\ parsed = [raised |-> FALSE, entries |-> <<>>]
    /\ entry = <<>> /\ log_info = None
    /\ IdleFilter /\ IdleView

\* what each detector gives on the bytes when it is asked, and the outcome
\* of lines 70-99 with these detectors
Resolve ==
    /\ pc = "resolve"
    /\ \E d \in DetectorOutcomes \X DetectorOutcomes :
          resolution' =
              [primary |-> d[1], secondary |-> d[2],
               outcome |-> ResolveEncoding(uploaded_files[1], d[1], d[2])]
    /\ pc' = "resolved"
    /\ UNCHANGED <<pipelineVars, content, parsed, entry, log_info, filterVars,
                   viewVars>>

NextEncoding == Resolve

SpecEncoding == InitEncoding /\ [][NextEncoding]_vars

\* one call of filter_logs_by_time_range
InitFilter ==
    LET
        FilterEntries ==
            {[content |-> <<"%", "@", "1", "%", "x">>, timestamp |-> t,
              source_file |-> NameOf(1), time_str |-> <<>>] :
                t \in Times \cup {None}}
    IN
    /\ logs \in SeqsUpTo(FilterEntries, MaxLogs)
    /\ start_time \in Times \cup {None}
    /\ end_time \in Times \cup {None}
    /\ result = <<>>
    /\ pc = "filter"
    /\ log_regex_edit = LOG_REGEX_PATTERN
    /\ time_regex_edit = TIME_REGEX_PATTERN
    /\ IdlePipeline /\ IdleSeg /\ IdleView

FilterByTime ==
    /\ pc = "filter"
    /\ result' = filter_logs_by_time_range(logs, start_time, end_time)
    /\ pc' = "filtered"
    /\ UNCHANGED <<pipelineVars, segVars, logs, start_time, end_time, viewVars>>

NextFilter == FilterByTime

SpecFilter == InitFilter /\ [][NextFilter]_vars

\* one call of filter_logs_by_keywords
InitKeywords ==
    LET
        \* the entries filter_logs_by_keywords is applied to, without a timestamp:
        \* "Err", "ear", "e\nr", "b"
        KeywordEntries ==
            {ViewEntry(c, None) :
                c \in {<<"E", "r", "r">>, <<"e", "a", "r">>, <<"e", "\n", "r">>,
                       <<"b">>}}
        \* keywords: "err", " Er ", " ", "b", "e.r", "(", "(?P<n>e)", "(?P<n>b)"
        KeywordChoices ==
            {<<"e", "r", "r">>, <<" ", "E", "r", " ">>, <<" ">>, <<"b">>,
             <<"e", ".", "r">>, <<"(">>, <<"(?P<n>", "e", ")">>, <<"(?P<n>", "b", ")">>}
    IN
    /\ logs \in SeqsUpTo(KeywordEntries, MaxLogs)
    /\ keywords \in SeqsUpTo(KeywordChoices, MaxKeywords)
    /\ result = <<>>
    /\ pc = "keywords"
    /\ start_time = None /\ end_time = None
    /\ log_regex_edit = LOG_REGEX_PATTERN
    /\ time_regex_edit = TIME_REGEX_PATTERN
    /\ IdlePipeline /\ IdleSeg
    /\ time_range_check = FALSE /\ search_edit = <<>>
    /\ filter_mode_radio = TRUE
    /\ current_logs = <<>> /\ entry_to_id_map = <<>> /\ log_id_map = <<>>
    /\ current_page = 0 /\ log_display = <<>> /\ watched_logs = <<>>
    /\ written = <<>> /\ analysis_started = FALSE

FilterByKeywords ==
    /\ pc = "keywords"
    /\ LET returned == filter_logs_by_keywords(logs, keywords)
       IN  IF returned.raised
           THEN pc' = "raised" /\ UNCHANGED result
           ELSE pc' = "keyword_filtered" /\ result' = returned.logs
    /\ UNCHANGED <<pipelineVars, segVars, logs, start_time, end_time, keywords,
                   time_range_check, search_edit, filter_mode_radio,
                   current_logs, entry_to_id_map, log_id_map, current_page,
                   log_display, watched_logs, written, analysis_started>>

NextKeywords == FilterByKeywords

SpecKeywords == InitKeywords /\ [][NextKeywords]_vars

\* calls of filter_logs_by_keywords on longer lists, with keywords for each
\* way of matching: "err" (plain), "e.r" (one pattern), "(" and "b" (a
\* pattern per keyword), and "x", which matches no entry
InitBatch ==
    /\ logs \in SeqsUpTo({ViewEntry(<<"E", "r", "r">>, None),
                          ViewEntry(<<"b">>, None)}, MaxLogs + 1)
    /\ keywords \in {<<<<"e", "r", "r">>>>, <<<<"e", ".", "r">>>>,
                     <<<<"(?P<n>", "b", ")">>, <<"(?P<n>", "e", ")">>>>,
                     <<<<"x">>>>}
    /\ result = <<>>
    /\ pc = "keywords"
    /\ start_time = None /\ end_time = None
    /\ log_regex_edit = LOG_REGEX_PATTERN
    /\ time_regex_edit = TIME_REGEX_PATTERN
    /\ IdlePipeline /\ IdleSeg
    /\ time_range_check = FALSE /\ search_edit = <<>>
    /\ filter_mode_radio = TRUE
    /\ current_logs = <<>> /\ entry_to_id_map = <<>> /\ log_id_map = <<>>
    /\ current_page = 0 /\ log_display = <<>> /\ watched_logs = <<>>
    /\ written = <<>> /\ analysis_started = FALSE

SpecBatch == InitBatch /\ [][NextKeywords]_vars

\* process_files from the return of process_log_files on, then the
\* handlers of the displayed list
InitView ==
    LET
        \* the lists process_log_files has returned to process_files: sorted
        ViewLogs ==
            LET ViewEntries ==
                    {ViewEntry(<<"E", "r", "r">>, None), ViewEntry(<<"b">>, None),
                     ViewEntry(<<"E", "r", "r">>, T1), ViewEntry(<<"b">>, T1),
                     ViewEntry(<<"b">>, T2)}
            IN  {SortLogs(s) : s \in SeqsUpTo(ViewEntries, MaxLogs)}
    IN
    /\ all_logs \in ViewLogs
    /\ time_range_check \in BOOLEAN
    /\ start_time = T1 /\ end_time = T1
    /\ search_edit \in {<<>>, <<"e", "r", "r">>,
                        <<" ", "b", "\n", "e", "r", "r">>, <<"(">>}
    /\ filter_mode_radio \in BOOLEAN
    /\ pc = "processed"
    /\ uploaded_files = <<>> /\ file_names = <<>> /\ cpu_count = 1
    /\ futures = <<>> /\ task_result = <<>> /\ completed = <<>> /\ idx = 0
    /\ failed_files = <<>> /\ progress = <<>>
    /\ log_regex_edit = LOG_REGEX_PATTERN
    /\ time_regex_edit = TIME_REGEX_PATTERN
    /\ IdleSeg
    /\ logs = <<>> /\ result = <<>> /\ keywords = <<>>
    /\ current_logs = <<>> /\ entry_to_id_map = <<>> /\ log_id_map = <<>>
    /\ current_page = 0 /\ log_display = <<>> /\ watched_logs = <<>>
    /\ written = <<>> /\ analysis_started = FALSE

\* the items whose check box the user changes: items that show equal
\* entries are handled alike, so one item for each entry the page shows
ToggledItems ==
    LET shown(n) == log_id_map[log_display[n].log_id + 1]
    IN  {(CHOOSE n \in DOMAIN log_display : shown(n) = e) :
            e \in {shown(n) : n \in DOMAIN log_display}}

NextView ==
    \/ Analyse
    \/ \E n \in ToggledItems : Toggle(n)
    \/ \E source_check \in BOOLEAN : ExportDisplayed(source_check)
    \/ \E source_check \in BOOLEAN : ExportWatched(source_check)

SpecView == InitView /\ [][NextView]_vars

\* the window after process_files has displayed a list of more than one
\* page, then the handlers of the displayed list
InitPages ==
    /\ all_logs = LongLogs
    /\ time_range_check = FALSE
    /\ start_time = T1 /\ end_time = T1
    /\ search_edit \in {<<"b">>, <<"e", "r", "\n", "b">>}
    /\ filter_mode_radio \in BOOLEAN
    /\ pc = "displayed"
    /\ uploaded_files = <<>> /\ file_names = <<>> /\ cpu_count = 1
    /\ futures = <<>> /\ task_result = <<>> /\ completed = <<>> /\ idx = 0
    /\ failed_files = <<>> /\ progress = <<>>
    /\ log_regex_edit = LOG_REGEX_PATTERN
    /\ time_regex_edit = TIME_REGEX_PATTERN
    /\ IdleSeg
    /\ logs = <<>> /\ result = <<>> /\ keywords = <<>>
    /\ watched_logs = <<>> /\ written = <<>> /\ analysis_started = TRUE
    /\ current_logs = LongLogs
    /\ entry_to_id_map = EntryToId(LongLogs)
    /\ log_id_map = LongLogs
    /\ current_page = 0
    /\ log_display =
           PageItems(LongLogs, <<>>, 0,
                     HighlightKeywords(filter_mode_radio, KeywordsOf(search_edit)))

NextPages ==
    \/ \E n \in ToggledItems : Toggle(n)
    \/ \E maximum \in {0, MaxScroll} :
           \E value \in 0..maximum : Scroll(value, maximum)

SpecPages == InitPages /\ [][NextPages]_vars

\* one call of _load_page(0, highlight_keywords) on a list of one entry
InitSpans ==
    LET
        \* the contents and keywords _load_page builds spans for
        SpanContents ==
            (SeqsUpTo({"a", "A", "b", "U+0130"}, MaxLen) \ {<<>>})
                \cup {TextFooBar}
        SpanKeywords ==
            {<<"a">>, <<"a", "B">>, <<"a", "a">>, <<"b">>, <<>>,
             <<"f", "o", "o">>, <<"b", "a", "r">>}
    IN
    /\ \E c \in SpanContents : current_logs = <<ViewEntry(c, None)>>
    /\ keywords \in SeqsUpTo(SpanKeywords, MaxKeywords)
    /\ pc = "load"
    /\ IdlePipeline /\ IdleSeg /\ IdleFilter
    /\ log_regex_edit = LOG_REGEX_PATTERN
    /\ time_regex_edit = TIME_REGEX_PATTERN
    /\ time_range_check = FALSE /\ search_edit = <<>>
    /\ filter_mode_radio = FALSE
    /\ entry_to_id_map = EntryToId(current_logs)
    /\ log_id_map = current_logs
    /\ current_page = 0 /\ log_display = <<>> /\ watched_logs = <<>>
    /\ written = <<>> /\ analysis_started = FALSE

\* lines 707-758: _load_page(0, keywords)
LoadPage ==
    /\ pc = "load"
    /\ current_page' = 0
    /\ log_display' = PageItems(current_logs, watched_logs, 0, keywords)
    /\ pc' = "loaded"
    /\ UNCHANGED <<pipelineVars, segVars, filterVars, keywords, widgetVars,
                   current_logs, entry_to_id_map, log_id_map, watched_logs,
                   written, analysis_started>>

NextSpans == LoadPage

SpecSpans == InitSpans /\ [][NextSpans]_vars

(***************************************************************************)
(* The working set of the main window: handle_file_upload,                 *)
(* delete_file_item and process_files up to the removal of the failed      *)
(* files.  refresh_file_list rebuilds the rows of file_list and then       *)
(* empties watched_logs and resets analysis_started (lines 623-625).       *)
(***************************************************************************)
\* the files the dialog offers, and what open(path, 'rb') with read() gives
\* for each: f1 holds one stamped entry ("%@1%a 1 0:0:0:1 0001"), f2 holds
\* no marker, reading f3 raises
Disk ==
    [p \in {NameOf(1), NameOf(2), NameOf(3)} |->
        CASE p = NameOf(1) ->
                 [readable |-> TRUE,
                  raw |-> <<"%", "@", "1", "%", "a", " ", "1", " ", "0", ":",
                            "0", ":", "0", ":", "1", " ", "0", "0", "0", "1">>]
          [] p = NameOf(2) -> [readable |-> TRUE, raw |-> <<"x">>]
          [] OTHER -> [readable |-> FALSE, raw |-> <<>>]]

\* lines 136-154 as a function of what future.result() gives or raises for
\* each future: the futures are collected in submission order, whatever
\* the order the tasks finish in
process_log_files(future_results) ==
    LET RECURSIVE merged(_)
        merged(k) ==
            IF k = 0 THEN <<>>
            ELSE CollectLogs(merged(k - 1), future_results[FutureAt(k)])
        RECURSIVE failed(_)
        failed(k) ==
            IF k = 0 THEN <<>>
            ELSE CollectFailed(failed(k - 1), future_results[FutureAt(k)])
        total == Len(future_results)
    IN  [all_logs |-> SortLogs(merged(total)),
         failed_files |-> failed(total),
         progress |-> [k \in 1..total |-> ProgressOf(k - 1)] \o <<60>>]

\* a handler of the window starts only when no other handler is running
HandlerFree == pc \in {"idle", "displayed", "error"}

\* lines 539-580: handle_file_upload, the dialog answered with files
Upload(files) ==
    /\ HandlerFree
    /\ files # <<>>
    /\ LET new_files ==
               SelectSeq(files, LAMBDA f :
                   \A n \in 1..Len(file_names) : file_names[n] # f)
           RECURSIVE Read(_)
           Read(paths) ==
               IF paths = <<>> THEN <<>>
               ELSE (IF Disk[Head(paths)].readable
                     THEN <<[closed |-> FALSE, raw |-> Disk[Head(paths)].raw]>>
                     ELSE <<>>) \o Read(Tail(paths))
       IN  /\ file_names' = file_names \o new_files
           /\ uploaded_files' = uploaded_files \o Read(new_files)
    /\ watched_logs' = <<>>
    /\ analysis_started' = FALSE
    /\ UNCHANGED <<log_regex_edit, time_regex_edit, cpu_count, pc, futures,
                   task_result, completed, idx, all_logs, failed_files,
                   progress, segVars, filterVars, keywords, widgetVars,
                   displayVars, written>>

\* lines 627-640: delete_file_item(row) with row in range (out of range the
\* handler returns at once); del self.uploaded_files[idx] raises IndexError
\* when uploaded_files is too short, after file_names has lost its element,
\* and the handler of line 638 skips refresh_file_list
Delete(row) ==
    /\ HandlerFree
    /\ row >= 0 /\ row < Len(file_names)
    /\ LET Del(s) == SubSeq(s, 1, row) \o SubSeq(s, row + 2, Len(s))
       IN  /\ file_names' = Del(file_names)
           /\ IF row < Len(uploaded_files)
              THEN /\ uploaded_files' = Del(uploaded_files)
                   /\ watched_logs' = <<>>
                   /\ analysis_started' = FALSE
              ELSE UNCHANGED <<uploaded_files, watched_logs, analysis_started>>
    /\ UNCHANGED <<log_regex_edit, time_regex_edit, cpu_count, pc, futures,
                   task_result, completed, idx, all_logs, failed_files,
                   progress, segVars, filterVars, keywords, widgetVars,
                   displayVars, written>>

\* lines 642-680 of process_files: the guard, the call of process_log_files
\* (one task for each pair of zip(uploaded_files, file_names), each with
\* one of the outcomes the detectors allow) and the removal of the failed
\* files.  Line 677 assigns file_names before line 678 enumerates it, so
\* line 678 takes uploaded_files[i] for every index i of the new
\* file_names; an IndexError there is caught at line 701
ProcessFiles ==
    /\ HandlerFree
    /\ uploaded_files # <<>>
    /\ LET outcomes ==
               [k \in 1..NumTasks |->
                   {process_file_content(res, file_names[k], log_regex_edit,
                                         time_regex_edit) :
                       res \in Resolutions(uploaded_files[k])}]
       IN  \E future_results \in
                  [1..NumTasks -> UNION {outcomes[k] : k \in 1..NumTasks}] :
              /\ \A k \in 1..NumTasks : future_results[k] \in outcomes[k]
              /\ LET returned == process_log_files(future_results)
                     kept == SelectSeq(file_names, LAMBDA f :
                                 \A n \in 1..Len(returned.failed_files) :
                                     returned.failed_files[n] # f)
                 IN  /\ all_logs' = returned.all_logs
                     /\ failed_files' = returned.failed_files
                     /\ progress' = returned.progress
                     /\ IF returned.failed_files = <<>>
                        THEN /\ pc' = "processed"
                             /\ UNCHANGED <<file_names, uploaded_files,
                                            watched_logs, analysis_started>>
                        ELSE /\ file_names' = kept
                             /\ IF Len(kept) > Len(uploaded_files)
                                THEN /\ pc' = "error"
                                     /\ UNCHANGED <<uploaded_files,
                                                    watched_logs,
                                                    analysis_started>>
                                ELSE /\ pc' = "processed"
                                     /\ uploaded_files' =
                                            SubSeq(uploaded_files, 1, Len(kept))
                                     /\ watched_logs' = <<>>
                                     /\ analysis_started' = FALSE
    /\ UNCHANGED <<log_regex_edit, time_regex_edit, cpu_count, futures,
                   task_result, completed, idx, segVars, filterVars, keywords,
                   widgetVars, displayVars, written>>

\* the window after construction (lines 58-66), then its handlers
InitFiles ==
    /\ pc = "idle"
    /\ log_regex_edit = LOG_REGEX_PATTERN
    /\ time_regex_edit = TIME_REGEX_PATTERN
    /\ IdlePipeline /\ IdleSeg /\ IdleFilter /\ IdleView

NextFiles ==
    \/ \E files \in {s \in SeqsUpTo(DOMAIN Disk, MaxFiles) :
                        \A i, j \in 1..Len(s) : s[i] = s[j] => i = j} :
           Upload(files)
    \/ \E row \in 0..(Len(file_names) - 1) : Delete(row)
    \/ ProcessFiles
    \/ Analyse
    \/ \E n \in ToggledItems : Toggle(n)

SpecFiles == InitFiles /\ [][NextFiles]_vars

(***************************************************************************)
(* Definitions the properties are stated with.                             *)
(***************************************************************************)
Indices(s) == 1..Len(s)

HasTimestamp(x) == x.timestamp # None

\* the number of positions of s that hold x
Count(s, x) == Cardinality({i \in Indices(s) : s[i] = x})

\* the elements of s that come from the file named name, in the order of s
RECURSIVE FromFile(_, _)
FromFile(s, name) ==
    IF s = <<>> THEN <<>>
    ELSE (IF Head(s).source_file = name THEN <<Head(s)>> ELSE <<>>)
             \o FromFile(Tail(s), name)

SameBag(s, t) ==
    /\ Len(s) = Len(t)
    /\ \A i \in Indices(s) : Count(s, s[i]) = Count(t, s[i])

\* what the task of file k gives, from the inputs of the run alone
OutcomeOf(k) ==
    process_file_content(CHOOSE res \in Resolutions(uploaded_files[k]) : TRUE,
                         file_names[k], log_regex_edit, time_regex_edit)

\* the segments of file k
SegmentsOf(k) ==
    parse_log_entries(uploaded_files[k].raw, log_regex_edit, time_regex_edit)

\* no strategy gives decoded text for file k: content stays None
ContentUnset(k) == \A res \in Resolutions(uploaded_files[k]) : ~res.decoded

\* file k is decoded and segmented into at least one entry
WellFormed(k) ==
    /\ ~ContentUnset(k)
    /\ ~SegmentsOf(k).raised
    /\ SegmentsOf(k).entries # <<>>

\* file k is decoded and yields zero entries after segmentation
YieldsNothing(k) ==
    /\ ~ContentUnset(k)
    /\ ~SegmentsOf(k).raised
    /\ SegmentsOf(k).entries = <<>>

Files == Indices(uploaded_files)

\* the results of the tasks joined in submission order
RECURSIVE JoinFrom(_)
JoinFrom(k) ==
    IF k > Len(uploaded_files) THEN <<>>
    ELSE LET outcome == OutcomeOf(k)
         IN  (IF outcome.raised THEN <<>> ELSE outcome.logs) \o JoinFrom(k + 1)

RECURSIVE FailedFrom(_)
FailedFrom(k) ==
    IF k > Len(uploaded_files) THEN <<>>
    ELSE LET outcome == OutcomeOf(k)
         IN  (IF ~outcome.raised /\ outcome.logs = <<>>
              THEN <<file_names[k]>> ELSE <<>>) \o FailedFrom(k + 1)

\* the elements of s at the positions rest, by sort key and, for equal keys,
\* by position
RECURSIVE ByKeyThenPosition(_, _)
ByKeyThenPosition(s, rest) ==
    IF rest = {} THEN <<>>
    ELSE LET first == CHOOSE i \in rest : \A j \in rest :
                          \/ DtLess(SortKey(s[i]), SortKey(s[j]))
                          \/ SortKey(s[i]) = SortKey(s[j]) /\ i <= j
         IN  <<s[first]>> \o ByKeyThenPosition(s, rest \ {first})

(***************************************************************************)
(* C1.  Original statement: in the list process_log_files returns, every   *)
(* entry without a timestamp comes before every entry with a timestamp,    *)
(* and the entries with a timestamp are in non-decreasing order.  The sort *)
(* key of an entry without a timestamp is datetime.min, which is also the  *)
(* timestamp "Jan 1 00:00:00:000 0001" parses to: such an entry of an      *)
(* earlier file stays before the entries without a timestamp.              *)
(***************************************************************************)
C1_NoTimestampFirst ==
    pc = "done" =>
        \A i, j \in Indices(all_logs) :
            i < j =>
                /\ ~HasTimestamp(all_logs[j]) => ~HasTimestamp(all_logs[i])
                /\ HasTimestamp(all_logs[i]) /\ HasTimestamp(all_logs[j])
                       => DtLeq(all_logs[i].timestamp, all_logs[j].timestamp)

(***************************************************************************)
(* C2.  For fixed files and patterns the returned entries and the failed   *)
(* files are the same under every order in which the tasks complete: the   *)
(* entries are those of the files joined in submission order, ordered by   *)
(* sort key and, for equal keys, by their position in that join (file      *)
(* submission order, then segmentation order); the failed files are in     *)
(* submission order.                                                       *)
(***************************************************************************)
C2_CompletionOrderInvisible ==
    pc = "done" =>
        LET joined == JoinFrom(1)
        IN  /\ all_logs = ByKeyThenPosition(joined, Indices(joined))
            /\ failed_files = FailedFrom(1)

\* two tasks completed in the opposite order of their submission, both with
\* entries, and the call returned
C2_Witness ==
    /\ pc = "done"
    /\ Len(completed) >= 2 /\ completed[1] > completed[2]
    /\ \A k \in Files : WellFormed(k)
    /\ \E i, j \in Indices(all_logs) :
          /\ i < j
          /\ SortKey(all_logs[i]) = SortKey(all_logs[j])
          /\ all_logs[i].source_file # all_logs[j].source_file

\* z is the one file that yields nothing, among well-formed files
C3_OneEmptyFile(z) ==
    /\ Len(uploaded_files) >= 2
    /\ Len(uploaded_files) = Len(file_names)
    /\ z \in Files
    /\ YieldsNothing(z)
    /\ \A k \in Files \ {z} : WellFormed(k)

(***************************************************************************)
(* C3.  When one of several files yields zero entries after segmentation   *)
(* (an empty file, or a text without a frame) and the others are           *)
(* well-formed, process_log_files does not raise, every returned entry has *)
(* a well-formed file as source_file and the failed files contain the name *)
(* of the file that yielded nothing.                                       *)
(***************************************************************************)
C3_EmptyFileIsolated ==
    pc \in {"raised", "done"} =>
        \A z \in Files :
            C3_OneEmptyFile(z) =>
                /\ pc # "raised"
                /\ \A i \in Indices(all_logs) :
                       \E k \in Files \ {z} :
                           all_logs[i].source_file = file_names[k]
                /\ \E i \in Indices(failed_files) :
                       failed_files[i] = file_names[z]

\* the call returned for an empty file next to a well-formed one
C3_Witness ==
    /\ pc = "done"
    /\ \E z \in Files :
          /\ C3_OneEmptyFile(z)
          /\ uploaded_files[z].raw = <<>>
    /\ all_logs # <<>>
    /\ Len(failed_files) = 1

(***************************************************************************)
(* C4.  Original statement: a file for which no strategy gives decoded     *)
(* text is named in the failed files and contributes no entries.  Line 101 *)
(* reads encodings, which is assigned only when the fixed list is reached: *)
(* when reading the file raises, the task raises instead of returning      *)
(* ([], file_name), and the orchestrator only logs that.                   *)
(***************************************************************************)
C4_UndecodedFileReported ==
    pc = "done" =>
        \A k \in Files :
            ContentUnset(k) =>
                /\ \E i \in Indices(failed_files) : failed_files[i] = file_names[k]
                /\ FromFile(all_logs, file_names[k]) = <<>>

\* the task of some file has raised
C5_TaskRaised ==
    \E k \in DOMAIN futures : futures[k] = "done" /\ task_result[k].raised

(***************************************************************************)
(* C5.  An error raised inside the task of one file never makes            *)
(* process_log_files raise, and every entry of every other file is still   *)
(* returned.                                                               *)
(***************************************************************************)
C5_TaskErrorIsolated ==
    C5_TaskRaised =>
        /\ pc # "raised"
        /\ pc = "done" =>
               \A k \in Files :
                   ~OutcomeOf(k).raised =>
                       SameBag(FromFile(all_logs, file_names[k]), OutcomeOf(k).logs)

\* the call returned the entries of a file whose sibling's task raised
C5_Witness ==
    /\ pc = "done"
    /\ C5_TaskRaised
    /\ all_logs # <<>>

\* file k is named in the failed files
C6_Reported(k) ==
    \E i \in Indices(failed_files) : failed_files[i] = file_names[k]

RECURSIVE Contents(_)
Contents(s) == IF s = <<>> THEN <<>> ELSE <<Head(s).content>> \o Contents(Tail(s))

(***************************************************************************)
(* C6.  Original statement: the returned entries are, as a multiset, the   *)
(* segments of the files not reported failed, one LogEntry per segment     *)
(* with that content and that file as source_file, and every input file    *)
(* contributes at least one entry or is named in the failed files.  Stated *)
(* for frame patterns that have a group; it fails for a file whose task    *)
(* raises at line 101 (see C4).                                            *)
(***************************************************************************)
C6_EntriesAreTheSegments ==
    pc = "done" /\ NumGroups(CompileLogPattern(log_regex_edit)) >= 1 =>
        \A k \in Files :
            /\ ~C6_Reported(k) /\ ~ContentUnset(k) =>
                   SameBag(Contents(FromFile(all_logs, file_names[k])),
                           SegmentsOf(k).entries)
            /\ C6_Reported(k) => FromFile(all_logs, file_names[k]) = <<>>
            /\ FromFile(all_logs, file_names[k]) # <<>> \/ C6_Reported(k)

(***************************************************************************)
(* C7.  Original statement: with a non-blank time pattern that compiles in *)
(* the edit box, the timestamp of every entry is the one that pattern      *)
(* extracts.  extract_log_info reads self.TIME_REGEX_PATTERN, which is the *)
(* default for the life of the LogProcessor; the pattern compiled from the *)
(* edit box in parse_log_entries is never used.                            *)
(***************************************************************************)
C7_UserTimePatternUsed ==
    pc = "done" /\ Strip(time_regex_edit) # <<>> /\ ReCompiles(Strip(time_regex_edit)) =>
        \A i \in Indices(all_logs) :
            all_logs[i].timestamp =
                ExtractWith(Strip(time_regex_edit), all_logs[i].content,
                            all_logs[i].source_file).timestamp

\* the segmentation of a text with the default frame pattern
DefaultSegmentation(text) ==
    SelectSeq(StripEach(FrameFindIter(ReplaceCRLF(text), 1)), NonEmpty)

\* the text of the edit box is blank, or re.compile rejects it
BlankOrInvalid(edit) == Strip(edit) = <<>> \/ ~ReCompiles(Strip(edit))

(***************************************************************************)
(* C8.  In parse_log_entries a frame pattern that is blank or fails to     *)
(* compile is replaced by the default frame pattern: the entries are those *)
(* of the default pattern and nothing is raised.                           *)
(***************************************************************************)
C8_FramePatternFallback ==
    pc = "segmented" /\ BlankOrInvalid(log_regex_edit) =>
        /\ ~parsed.raised
        /\ parsed.entries = DefaultSegmentation(content)

\* a text with two frames was segmented under a pattern that does not
\* compile, and under a blank one
C8_Witness ==
    /\ pc = "segmented"
    /\ log_regex_edit \in {InvalidPattern, <<" ", "\n">>}
    /\ Len(parsed.entries) = 2

\* the parts of a text made of markers, each followed by a body
TextsWithParts == {<<Concat(parts), parts>> : parts \in PartsSeqs}

PartsOf(text) == (CHOOSE pair \in TextsWithParts : pair[1] = text)[2]

RECURSIVE TrimmedBodies(_)
TrimmedBodies(parts) ==
    IF parts = <<>> THEN <<>>
    ELSE <<Strip(ReplaceCRLF(Head(parts)[2]))>> \o TrimmedBodies(Tail(parts))

RECURSIVE TrimmedFrames(_)
TrimmedFrames(parts) ==
    IF parts = <<>> THEN <<>>
    ELSE <<Strip(ReplaceCRLF(MarkerOf(Head(parts)[1]) \o Head(parts)[2]))>>
             \o TrimmedFrames(Tail(parts))

(***************************************************************************)
(* C9.  Original statement: with the default frame pattern, a text made of *)
(* markers %@<digits>% each followed by a body yields one entry per        *)
(* marker, in text order, each entry being the trimmed body after its      *)
(* marker; "%@1%A\n%@2%B\n" gives ["A", "B"].                              *)
(***************************************************************************)
C9_EntriesAreBodies ==
    pc = "segmented" /\ log_regex_edit = LOG_REGEX_PATTERN /\ content \in MarkerTexts =>
        /\ parsed.entries = TrimmedBodies(PartsOf(content))
        /\ content = TextAB => parsed.entries = <<<<"A">>, <<"B">>>>

(***************************************************************************)
(* C9, amended.  With the default frame pattern, a text made of markers    *)
(* %@<digits>% each followed by a body without a marker yields one entry   *)
(* per marker, in text order, each entry being the trimmed text that       *)
(* starts with its marker and runs up to the next marker or the end of the *)
(* text; "%@1%A\n%@2%B\n" gives ["%@1%A", "%@2%B"].                        *)
(***************************************************************************)
C9_EntriesStartWithMarker ==
    pc = "segmented" /\ log_regex_edit = LOG_REGEX_PATTERN /\ content \in MarkerTexts =>
        /\ ~parsed.raised
        /\ Len(parsed.entries) = Len(PartsOf(content))
        /\ parsed.entries = TrimmedFrames(PartsOf(content))
        /\ content = TextAB =>
               parsed.entries = <<<<"%", "@", "1", "%", "A">>,
                                  <<"%", "@", "2", "%", "B">>>>

\* "%@1%A\n%@2%B\n" was segmented with the default frame pattern
C9_Witness ==
    /\ pc = "segmented"
    /\ log_regex_edit = LOG_REGEX_PATTERN
    /\ content = TextAB
    /\ Len(parsed.entries) = 2

\* the entry is in the result of the filter
Kept(x) == \E i \in Indices(result) : result[i] = x

(***************************************************************************)
(* C10.  filter_logs_by_time_range keeps an entry that has a timestamp     *)
(* exactly when start <= timestamp <= end for the bounds that are present: *)
(* an entry at end is kept and one a millisecond after end is dropped, and *)
(* likewise at start.                                                      *)
(***************************************************************************)
C10_InclusiveBounds ==
    pc = "filtered" =>
        \A i \in Indices(logs) :
            HasTimestamp(logs[i]) =>
                (Kept(logs[i]) <=>
                    /\ start_time = None \/ DtLeq(start_time, logs[i].timestamp)
                    /\ end_time = None \/ DtLeq(logs[i].timestamp, end_time))

\* the filter ran on an entry at end and one a millisecond later, and on an
\* entry at start and one a millisecond earlier
C10_Witness ==
    /\ pc = "filtered"
    /\ start_time = T2 /\ end_time = T2
    /\ \E i, j, k \in Indices(logs) :
          /\ logs[i].timestamp = T2 /\ Kept(logs[i])
          /\ logs[j].timestamp = T3 /\ ~Kept(logs[j])
          /\ logs[k].timestamp = T1 /\ ~Kept(logs[k])

\* s is t with some of its elements left out
RECURSIVE IsSubsequence(_, _)
IsSubsequence(s, t) ==
    IF s = <<>> THEN TRUE
    ELSE IF t = <<>> THEN FALSE
    ELSE IF Head(s) = Head(t) THEN IsSubsequence(Tail(s), Tail(t))
    ELSE IsSubsequence(s, Tail(t))

(***************************************************************************)
(* C11.  filter_logs_by_time_range drops every entry without a timestamp,  *)
(* whatever the bounds (both absent included); its result is a subsequence *)
(* of its input, so kept entries keep their relative order and their       *)
(* fields, and the input list is left as it was.                           *)
(***************************************************************************)
C11_DropsUnstampedKeepsOrder ==
    /\ [](pc = "filtered" =>
             /\ \A i \in Indices(result) : HasTimestamp(result[i])
             /\ IsSubsequence(result, logs))
    /\ [][pc = "filter" => logs' = logs]_vars

\* the filter ran without bounds on a list with an entry without a
\* timestamp between two entries with one: both are kept, in their order
C11_Witness ==
    /\ pc = "filtered"
    /\ start_time = None /\ end_time = None
    /\ Len(logs) = 3
    /\ logs[1].timestamp = T3 /\ ~HasTimestamp(logs[2]) /\ logs[3].timestamp = T1
    /\ result = <<logs[1], logs[3]>>

\* every keyword of the list is blank after trimming
AllBlank(kws) == \A n \in Indices(kws) : Strip(kws[n]) = <<>>

(***************************************************************************)
(* C13.  filter_logs_by_keywords called with an empty keyword list, or one *)
(* whose keywords are all blank after trimming, returns every input entry  *)
(* in the input order and with its fields unchanged.                       *)
(***************************************************************************)
C13_BlankKeywordsKeepAll ==
    AllBlank(keywords) =>
        /\ pc # "raised"
        /\ pc = "keyword_filtered" => result = logs

\* the filter returned three entries for the keyword list [" ", " "]
C13_Witness ==
    /\ pc = "keyword_filtered"
    /\ keywords = <<<<" ">>, <<" ">>>>
    /\ Len(logs) = 3 /\ logs[1] # logs[2]
    /\ result = logs

\* the trimmed keywords that are not blank
Trimmed(kws) == {Strip(kws[n]) : n \in {m \in Indices(kws) : Strip(kws[m]) # <<>>}}

\* a and b are the same character, or the same letter in two cases
SameLetter(a, b) ==
    \/ a = b
    \/ \E n \in Indices(UpperCase) :
           {a, b} = {UpperCase[n], LowerCase[n]}

\* text contains kw in some letter case
ContainsAnyCase(text, kw) ==
    \E i \in 0..(Len(text) - Len(kw)) :
        \A n \in Indices(kw) : SameLetter(text[i + n], kw[n])

\* the entries of ls, in order, whose content contains some keyword of kws
RECURSIVE WithSomeKeyword(_, _)
WithSomeKeyword(ls, kws) ==
    IF ls = <<>> THEN <<>>
    ELSE (IF \E kw \in kws : ContainsAnyCase(Head(ls).content, kw)
          THEN <<Head(ls)>> ELSE <<>>) \o WithSomeKeyword(Tail(ls), kws)

\* some keyword holds a regex metacharacter
SomeRegexChar(kws) == \E kw \in Trimmed(kws) : HasRegexChar(kw)

(***************************************************************************)
(* C14.  When no keyword contains a regex metacharacter,                   *)
(* filter_logs_by_keywords returns exactly the input entries whose content *)
(* contains, in any letter case, at least one of the trimmed non-blank     *)
(* keywords, in input order; for ["err"] that is the entries whose content *)
(* contains "err" in any letter case.                                      *)
(***************************************************************************)
C14_PlainKeywordsAnyCase ==
    ~AllBlank(keywords) /\ ~SomeRegexChar(keywords) =>
        /\ pc # "raised"
        /\ pc = "keyword_filtered" =>
               result = WithSomeKeyword(logs, Trimmed(keywords))

\* the filter ran with the keywords " Er " and "b" on entries "ear", "Err"
\* and "b": it kept the last two
C14_Witness ==
    /\ pc = "keyword_filtered"
    /\ keywords = <<<<" ", "E", "r", " ">>, <<"b">>>>
    /\ Len(logs) = 3
    /\ logs[1].content = <<"e", "a", "r">>
    /\ result = <<logs[2], logs[3]>>
    /\ logs[2].content = <<"E", "r", "r">> /\ logs[3].content = <<"b">>

\* the entries of ls, in order, that some keyword of kws matches as a
\* pattern of its own
RECURSIVE MatchedBySomeKeyword(_, _)
MatchedBySomeKeyword(ls, kws) ==
    IF ls = <<>> THEN <<>>
    ELSE (IF \E kw \in kws : KeywordCompiles(kw) /\ PatternSearch(kw, Head(ls).content)
          THEN <<Head(ls)>> ELSE <<>>) \o MatchedBySomeKeyword(Tail(ls), kws)

(***************************************************************************)
(* C15.  Original statement: when some keyword contains a regex            *)
(* metacharacter and the combined alternation fails to compile,            *)
(* filter_logs_by_keywords falls back to compiling each keyword on its own *)
(* and returns the entries matched, in any letter case, by at least one of *)
(* the keywords.  The fallback at line 200 compiles outside any try: for a *)
(* keyword that does not compile, such as "(", the call raises re.error.   *)
(***************************************************************************)
C15_FallbackReturnsMatches ==
    /\ SomeRegexChar(keywords)
    /\ ~KeywordCompiles(JoinAlternation(ValidKeywords(keywords)))
    => /\ pc # "raised"
       /\ pc = "keyword_filtered" =>
              result = MatchedBySomeKeyword(logs, Trimmed(keywords))

\* the keyword filter of this run removes nothing
NoKeywordFilter == ~filter_mode_radio \/ KeywordsOf(search_edit) = <<>>

(***************************************************************************)
(* C12.  Original statement: when an analysis run is made with the time    *)
(* range disabled, the entries without a timestamp are retained in the     *)
(* displayed list and placed before all entries with a timestamp.  Stated  *)
(* for the runs whose keyword filter removes nothing.  process_files calls *)
(* filter_logs_by_time_range with both bounds None, which drops them.      *)
(***************************************************************************)
C12_UnstampedRetained ==
    pc = "displayed" /\ ~time_range_check /\ NoKeywordFilter =>
        /\ \A i \in Indices(all_logs) :
               ~HasTimestamp(all_logs[i]) =>
                   Count(current_logs, all_logs[i]) = Count(all_logs, all_logs[i])
        /\ \A i, j \in Indices(current_logs) :
               i < j /\ ~HasTimestamp(current_logs[j])
                   => ~HasTimestamp(current_logs[i])

\* text holds kw, in some letter case, at offset p (from 0)
OccursAt(text, kw, p) ==
    /\ p + Len(kw) <= Len(text)
    /\ \A n \in Indices(kw) : SameLetter(text[p + n], kw[n])

\* the occurrences of kw in text from offset start on, left to right, each
\* search resuming at the end of the occurrence before
RECURSIVE OccurrencesFrom(_, _, _)
OccurrencesFrom(text, kw, start) ==
    IF \E p \in start..Len(text) : OccursAt(text, kw, p)
    THEN LET first == CHOOSE p \in start..Len(text) :
                          /\ OccursAt(text, kw, p)
                          /\ \A q \in start..(p - 1) : ~OccursAt(text, kw, q)
         IN  <<<<first, first + Len(kw)>>>>
                 \o OccurrencesFrom(text, kw, first + Len(kw))
    ELSE <<>>

\* the occurrences of every non-blank keyword, keyword by keyword
RECURSIVE OccurrencesOfAll(_, _)
OccurrencesOfAll(text, kws) ==
    IF kws = <<>> THEN <<>>
    ELSE (IF Head(kws) = <<>> THEN <<>> ELSE OccurrencesFrom(text, Head(kws), 0))
             \o OccurrencesOfAll(text, Tail(kws))

\* the spans are in the order of their start offsets
ByStart(spans) ==
    \A i, j \in Indices(spans) : i < j => spans[i][1] <= spans[j][1]

\* the item carries the occurrences of the keywords as its spans
CarriesSpans(item, kws) ==
    /\ SameBag(item.highlight_data, OccurrencesOfAll(item.text, kws))
    /\ ByStart(item.highlight_data)

(***************************************************************************)
(* C16.  Original statement: for every content and keyword list the spans  *)
(* built in _load_page are, for each non-blank keyword, its occurrences in *)
(* any letter case, found left to right with the scan resuming after each  *)
(* occurrence, each span (start, start + keyword length); the list is      *)
(* sorted by start and spans of different keywords are neither merged nor  *)
(* deduplicated; "foo bar foo" with ["foo", "bar"] gives (0,3), (4,7),     *)
(* (8,11).  The offsets are found in content.lower(), which is longer than *)
(* content when it holds U+0130: the spans after it are shifted.           *)
(***************************************************************************)
C16_SpansAreOccurrences ==
    pc = "loaded" =>
        /\ CarriesSpans(log_display[1], keywords)
        /\ log_display[1].text = TextFooBar
               /\ keywords = <<<<"f", "o", "o">>, <<"b", "a", "r">>>>
               => log_display[1].highlight_data = <<<<0, 3>>, <<4, 7>>, <<8, 11>>>>

\* the list of this run after the time filter
TimeFiltered ==
    filter_logs_by_time_range(all_logs, RangeBound(start_time), RangeBound(end_time))

(***************************************************************************)
(* C17.  In one analysis run filter mode and highlight mode exclude each   *)
(* other and work on the same time-filtered list: in highlight mode the    *)
(* displayed list is the time-filtered list, entries that match no keyword *)
(* included, and the keyword filter is not applied (a keyword that does    *)
(* not compile raises nothing); in filter mode the displayed list is the   *)
(* keyword-filtered list and no item carries spans.                        *)
(***************************************************************************)
C17_ModesExclusive ==
    /\ ~filter_mode_radio => pc # "error"
    /\ pc = "displayed" =>
           IF filter_mode_radio
           THEN /\ current_logs =
                       filter_logs_by_keywords(TimeFiltered, KeywordsOf(search_edit)).logs
                /\ \A n \in DOMAIN log_display : log_display[n].highlight_data = None
           ELSE current_logs = TimeFiltered

\* a run in highlight mode with the keyword "err" displayed "Err" with its
\* span and "b", which matches no keyword
C17_Witness ==
    /\ pc = "displayed"
    /\ ~filter_mode_radio
    /\ search_edit = <<"e", "r", "r">>
    /\ Len(log_display) = 2
    /\ log_display[1].text = <<"E", "r", "r">>
    /\ log_display[1].highlight_data = <<<<0, 3>>>>
    /\ log_display[2].text = <<"b">>
    /\ log_display[2].highlight_data = None

(***************************************************************************)
(* C18.  Original statement: in highlight mode every entry shown carries   *)
(* its highlight spans after every page load: the first page loaded by     *)
(* display_logs, a page loaded by scrolling and a page reloaded after a    *)
(* check-box change.  handle_scroll calls _load_page(current_page) without *)
(* the keywords: the items of a page loaded by scrolling carry no spans.   *)
(***************************************************************************)
C18_SpansAfterEveryLoad ==
    pc = "displayed" /\ ~filter_mode_radio =>
        \A n \in DOMAIN log_display :
            CarriesSpans(log_display[n], KeywordsOf(search_edit))

(***************************************************************************)
(* C19.  During process_log_files the progress callback receives one value *)
(* per processed file, each in 0..50 and not below the one before, and     *)
(* after them the value 60, which is reported only after every file has    *)
(* been processed and the merged entries have been sorted.                 *)
(***************************************************************************)
C19_ProgressPerFileThenSixty ==
    /\ pc = "collect" =>
           /\ Len(progress) = idx
           /\ \A i \in Indices(progress) : progress[i] \in 0..50
           /\ \A i, j \in Indices(progress) : i < j => progress[i] <= progress[j]
    /\ pc = "done" =>
           /\ Len(progress) = Len(uploaded_files) + 1
           /\ progress[Len(progress)] = 60
           /\ \A i \in 1..Len(uploaded_files) : progress[i] \in 0..50
           /\ \A i, j \in 1..Len(uploaded_files) :
                  i < j => progress[i] <= progress[j]
    /\ (\E i \in Indices(progress) : progress[i] = 60) =>
           /\ pc = "done"
           /\ idx = Len(uploaded_files)
           /\ \A k \in DOMAIN futures : futures[k] = "done"
           /\ \A i, j \in Indices(all_logs) :
                  i < j => DtLeq(SortKey(all_logs[i]), SortKey(all_logs[j]))

\* two files were processed: 25, 50, then 60
C19_Witness ==
    /\ pc = "done"
    /\ progress = <<25, 50, 60>>
    /\ all_logs # <<>>

RECURSIVE WrittenContents(_)
WrittenContents(w) ==
    IF w = <<>> THEN <<>> ELSE <<Head(w).content>> \o WrittenContents(Tail(w))

(***************************************************************************)
(* C20.  Original statement: export_displayed_logs and export_logs write   *)
(* the entries in the same relative order as the displayed list, also when *)
(* the list holds two entries equal in all fields.  entry_to_id_map keeps  *)
(* one id per entry value, the id of its last occurrence, and both exports *)
(* sort by that id: of two equal entries the first one is written after    *)
(* the entries shown between them.                                         *)
(***************************************************************************)
C20_ExportKeepsDisplayOrder ==
    pc = "displayed" /\ written # <<>> =>
        IsSubsequence(WrittenContents(written), Contents(current_logs))

\* file_names and uploaded_files have the same length and position i of
\* uploaded_files holds the bytes read from the path at position i of
\* file_names
Paired ==
    /\ Len(uploaded_files) = Len(file_names)
    /\ \A i \in Indices(file_names) :
          /\ Disk[file_names[i]].readable
          /\ uploaded_files[i].raw = Disk[file_names[i]].raw

(***************************************************************************)
(* C21.  Original statement: after an analysis run that reports failed     *)
(* files, on a working set whose names and files were paired, no failed    *)
(* file is left in file_names and every remaining name is still paired, at *)
(* the same index, with that file's own bytes.  Line 678 indexes the old   *)
(* uploaded_files with the indices of the new file_names: the first files  *)
(* are kept, whichever failed.                                             *)
(***************************************************************************)
C21_FailedFilesRemoved ==
    [][(ProcessFiles /\ Paired /\ failed_files' # <<>>)
           => /\ \A i \in Indices(file_names') :
                     \A n \in Indices(failed_files') :
                         file_names'[i] # failed_files'[n]
              /\ Paired']_vars

(***************************************************************************)
(* C22.  Every entry that segmentation yields, and so every LogEntry that  *)
(* extraction builds from it, has non-empty content: a match of the frame  *)
(* pattern whose group 1 is empty after trimming never becomes an entry.   *)
(* The time filter, the keyword filter, the display and the watched list   *)
(* only select among these entries.                                        *)
(***************************************************************************)
C22_ContentNeverEmpty ==
    pc = "segmented" =>
        /\ \A i \in Indices(parsed.entries) : parsed.entries[i] # <<>>
        /\ \A i \in Indices(ExtractAll(parsed.entries, NameOf(1))) :
               ExtractAll(parsed.entries, NameOf(1))[i].content # <<>>
        /\ Len(ExtractAll(parsed.entries, NameOf(1))) = Len(parsed.entries)

\* a match whose group 1 is blank was dropped and a later one was kept
C22_Witness ==
    /\ pc = "segmented"
    /\ ~parsed.raised
    /\ \E m \in Indices(FindIter(CompileLogPattern(log_regex_edit),
                                  ReplaceCRLF(content))) :
           Strip(FindIter(CompileLogPattern(log_regex_edit),
                          ReplaceCRLF(content))[m]) = <<>>
    /\ parsed.entries # <<>>

(***************************************************************************)
(* C23.  With the default time pattern, extract_log_info searches the      *)
(* pattern anywhere in the entry text.  On a match the raw time text is    *)
(* the matched text and the timestamp is built from the captured month     *)
(* name, day, hour, minute, second, millisecond and year: the month is the *)
(* one of the three-letter table, 1 for a name the table does not hold,    *)
(* and the milliseconds are multiplied by 1000 into microseconds, so that  *)
(* "May 3 10:20:30:123 2025" gives 2025-05-03T10:20:30.123.  When nothing  *)
(* matches, the timestamp is absent and the raw time text is empty.        *)
(***************************************************************************)
C23_DefaultPatternExtraction ==
    pc = "extracted" =>
        /\ log_info.content = entry
        /\ log_info.source_file = NameOf(1)
        /\ \A parts \in TimeParts :
               entry = EntryTextOf(parts) =>
                   /\ log_info.time_str = TimeTextOf(parts)
                   /\ log_info.timestamp =
                          <<parts.year[2], parts.month[2], parts.day[2],
                            parts.clock[2][1], parts.clock[2][2],
                            parts.clock[2][3], parts.ms[2] * 1000>>
        /\ entry = <<"x", " ", "M", "a", "y", " ", "3", " ", "1", "0", ":", "2", "0", ":", "3", "0", ":", "1", "2", "3", " ", "2", "0", "2", "5">>
               => log_info.timestamp = <<2025, 5, 3, 10, 20, 30, 123000>>
        /\ entry \in UntimedTexts =>
               log_info.timestamp = None /\ log_info.time_str = <<>>

\* the time of an entry was extracted whose month name the table does not hold
C23_Witness ==
    /\ pc = "extracted"
    /\ \E parts \in TimeParts :
           /\ entry = EntryTextOf(parts)
           /\ parts.month[1] = <<"F", "o", "o">>
           /\ parts.prefix # <<>>
    /\ log_info.timestamp # None
    /\ log_info.timestamp[2] = 1

\* "%@2%May 32 1:2:3:4 2025": the default time pattern matches, the day is 32
BadDayEntry ==
    <<"%", "@", "2", "%", "M", "a", "y", " ", "3", "2", " ", "1", ":", "2", ":", "3", ":", "4", " ", "2", "0", "2", "5">>

\* file k is decoded and segmented, and one of its entries is BadDayEntry
HasBadDay(k) ==
    /\ ~uploaded_files[k].closed
    /\ LET segments == SegmentsOf(k)
       IN  /\ ~segments.raised
           /\ \E n \in Indices(segments.entries) :
                  segments.entries[n] = BadDayEntry

Unstamped(x) == x.timestamp = None

(***************************************************************************)
(* C24.  When the time pattern matches an entry and the matched fields do  *)
(* not form a date-time (day 32), no task raises and process_log_files     *)
(* returns the entry with its raw time text and an absent timestamp; the   *)
(* file is not reported failed; no entry with a later sort key precedes    *)
(* the entry, and the entries without a timestamp, this one among them,    *)
(* are in the order of the files and of the text.                          *)
(***************************************************************************)
C24_InvalidDateKept ==
    /\ pc # "raised" \/ uploaded_files = <<>>
    /\ \A k \in DOMAIN task_result : task_result[k].raised => ~HasBadDay(k)
    /\ pc = "done" =>
           \A k \in Files :
               HasBadDay(k) =>
                   /\ \A n \in Indices(failed_files) :
                          failed_files[n] # file_names[k]
                   /\ \E i \in Indices(all_logs) :
                          /\ all_logs[i] =
                                 [content |-> BadDayEntry, timestamp |-> None,
                                  source_file |-> file_names[k],
                                  time_str |-> SubSeq(BadDayEntry, 5,
                                                      Len(BadDayEntry))]
                          /\ \A j \in 1..(i - 1) :
                                 SortKey(all_logs[j]) = DatetimeMin
                   /\ SelectSeq(all_logs, Unstamped)
                          = SelectSeq(JoinFrom(1), Unstamped)

\* a file with the entry of day 32 was processed after a file whose entries
\* have timestamps, and the entry of day 32 was returned before one of them
C24_Witness ==
    /\ pc = "done"
    /\ Len(uploaded_files) = 2
    /\ HasBadDay(2)
    /\ \E i, j \in Indices(all_logs) :
          /\ i < j
          /\ all_logs[i].content = BadDayEntry
          /\ all_logs[j].source_file = file_names[1]
          /\ HasTimestamp(all_logs[j])

\* the loop of filter_logs_by_keywords on the first n entries of logs, with
\* the keywords of the call and this batch size
BatchedPrefix(n, size) ==
    BatchLoop(SubSeq(logs, 1, n), KeywordMatcher(ValidKeywords(keywords)).mode,
              ValidKeywords(keywords), <<>>, <<>>, size)

\* the entries of logs the keywords match, in input order
SinglePass ==
    SelectSeq(logs,
              LAMBDA log :
                  KeywordMatch(KeywordMatcher(ValidKeywords(keywords)).mode,
                               ValidKeywords(keywords), log.content))

(***************************************************************************)
(* C25.  Batching in filter_logs_by_keywords is invisible to the caller:   *)
(* for every input and every batch size the flushed entries followed by    *)
(* the last batch are the entries the keywords match, in input order,      *)
(* which is what the call returns; and after each entry has been processed *)
(* the pending batch holds fewer entries than the batch size.              *)
(***************************************************************************)
C25_BatchingInvisible ==
    pc = "keyword_filtered" /\ ValidKeywords(keywords) # <<>> =>
        /\ result = SinglePass
        /\ \A size \in 1..MaxBatch :
               /\ BatchedPrefix(Len(logs), size).filtered_logs
                      \o BatchedPrefix(Len(logs), size).batch = SinglePass
               /\ \A n \in 0..Len(logs) :
                      Len(BatchedPrefix(n, size).batch) < size

\* the keywords matched as many entries as two batches hold, and an entry in
\* between was not matched
C25_Witness ==
    /\ pc = "keyword_filtered"
    /\ ValidKeywords(keywords) # <<>>
    /\ Len(logs) = MaxLogs + 1
    /\ Len(result) = 2
    /\ result[1] = logs[1] /\ result[2] = logs[3]
    /\ BatchedPrefix(Len(logs), 1).filtered_logs = result
    /\ BatchedPrefix(Len(logs), 2).filtered_logs = result
    /\ BatchedPrefix(Len(logs), 3).filtered_logs = <<>>

(***************************************************************************)
(* C26.  process_files does not call process_log_files with an empty file  *)
(* list, so the pool has at least one worker and the executor is created   *)
(* without an error.  Every file has one task, which runs once, and at no  *)
(* time are more tasks running than min(CPU count, number of files).       *)
(***************************************************************************)
C26_OneTaskPerFileBoundedPool ==
    /\ pc # "raised"
    /\ pc \in {"start", "collect", "done"} =>
           /\ uploaded_files # <<>>
           /\ MaxWorkers >= 1
           /\ Cardinality(Running) <= cpu_count
           /\ Cardinality(Running) <= Len(uploaded_files)
    /\ pc \in {"collect", "done"} =>
           /\ Len(futures) = Len(uploaded_files)
           /\ \A k \in Files : Count(completed, k) <= 1
           /\ \A k \in Files : futures[k] = "done" <=> Count(completed, k) = 1
    /\ pc = "done" => \A k \in Files : futures[k] = "done"
    /\ pc = "returned" => uploaded_files = <<>> /\ futures = <<>>

\* as many tasks as the pool has workers are running while a file waits
C26_Witness ==
    /\ pc = "collect"
    /\ Len(uploaded_files) > cpu_count
    /\ Cardinality(Running) = cpu_count
    /\ Queued # {}

\* a step in which a task writes: it writes its own result, once, when it
\* ends, and neither the merged list nor the list of failed files
TasksWriteOwnResult ==
    \A k \in DOMAIN task_result :
        task_result'[k] # task_result[k] =>
            /\ futures[k] = "running" /\ futures'[k] = "done"
            /\ \A j \in DOMAIN task_result \ {k} :
                   task_result'[j] = task_result[j]
            /\ all_logs' = all_logs /\ failed_files' = failed_files

\* a step of the loop over the futures that changes the merged list or the
\* list of failed files
Merges ==
    /\ pc = "collect" /\ pc' = "collect"
    /\ all_logs' # all_logs \/ failed_files' # failed_files

(***************************************************************************)
(* C27.  Original statement: a task writes only its own result, the merged *)
(* list and the list of failed files are written by the orchestrator       *)
(* alone, and the results are combined into the merged list only after all *)
(* tasks have finished.                                                    *)
(***************************************************************************)
C27_MergedAfterAllTasks ==
    [][/\ TasksWriteOwnResult
       /\ Merges => /\ task_result' = task_result
                    /\ \A k \in DOMAIN futures : futures[k] = "done"]_vars

(***************************************************************************)
(* C27, amended.  A task writes only its own result, the merged list and   *)
(* the list of failed files are written by the orchestrator alone, and the *)
(* result of a task is combined into the merged list only after that task  *)
(* has finished, the results being taken in the order of submission; other *)
(* tasks may still be queued or running.  The list is sorted and returned  *)
(* after all tasks have finished.                                          *)
(***************************************************************************)
C27_MergedAfterOwnTask ==
    [][/\ TasksWriteOwnResult
       /\ Merges =>
              /\ task_result' = task_result
              /\ idx' = idx + 1
              /\ futures[idx'] = "done"
              /\ \A k \in 1..idx : futures[k] = "done"
              /\ all_logs' = all_logs
                                 \o (IF task_result[idx'].raised THEN <<>>
                                     ELSE task_result[idx'].logs)
       /\ pc' = "done" /\ pc # "done" =>
              \A k \in DOMAIN futures : futures[k] = "done"]_vars

\* the entries of the first file are in the merged list while the task of
\* the second file is running
C27_Witness ==
    /\ pc = "collect"
    /\ idx = 1
    /\ all_logs # <<>>
    /\ all_logs = task_result[1].logs
    /\ 2 \in Running

\* the encodings of the fixed list among the strategies tried
ListedTried ==
    SelectSeq(resolution.outcome.tried,
              LAMBDA t : t \notin {"primary", "secondary"})

(***************************************************************************)
(* C28.  In encoding resolution of a readable file the secondary detector  *)
(* is tried when the primary detector is unavailable or raises and also    *)
(* when the primary detector runs and yields no usable encoding, and the   *)
(* text it gives is then the content.  The fixed list is tried only after  *)
(* both detectors were tried and gave no text; its encodings are tried in  *)
(* the listed order and the first whose strict decode succeeds gives the   *)
(* content.  The code asks the secondary detector in the except clause of  *)
(* the primary one only.                                                   *)
(***************************************************************************)
C28_SecondaryThenFixedList ==
    pc = "resolved" /\ ~uploaded_files[1].closed =>
        LET out == resolution.outcome
        IN  /\ resolution.primary = "text" => out.via = "primary"
            /\ resolution.primary \in {"raise", "none"} =>
                   /\ \E n \in Indices(out.tried) : out.tried[n] = "secondary"
                   /\ resolution.secondary = "text" => out.via = "secondary"
            /\ ListedTried # <<>> =>
                   /\ resolution.primary # "text"
                   /\ resolution.secondary # "text"
                   /\ SubSeq(out.tried, 1, 2) = <<"primary", "secondary">>
                   /\ ListedTried = SubSeq(FixedEncodings, 1, Len(ListedTried))
                   /\ \A n \in 1..(Len(ListedTried) - 1) :
                          \A b \in ByteSamples :
                              b.raw = uploaded_files[1].raw =>
                                  ListedTried[n] \notin b.accepted
                   /\ out.via = ListedTried[Len(ListedTried)]
                   /\ \A b \in ByteSamples :
                          b.raw = uploaded_files[1].raw =>
                              /\ out.via \in b.accepted
                              /\ out.text = b.text

\* a step of handle_file_upload or of delete_file_item
UploadOrDelete ==
    \/ \E files \in SeqsUpTo(DOMAIN Disk, MaxFiles) : Upload(files)
    \/ \E row \in 0..(Len(file_names) - 1) : Delete(row)

(***************************************************************************)
(* C29.  An upload or a deletion that starts with file_names and           *)
(* uploaded_files paired (same length, position i of both being the same   *)
(* file) leaves them paired, also when one of the selected files cannot be *)
(* read, and it empties the watched list and sets analysis_started to      *)
(* false.  handle_file_upload adds the path of a file to file_names before *)
(* the file is read and adds nothing to uploaded_files when reading fails. *)
(***************************************************************************)
C29_UploadDeleteKeepPaired ==
    [][UploadOrDelete /\ Paired
           => /\ Paired'
              /\ watched_logs' = <<>>
              /\ ~analysis_started']_vars

====
